---- MODULE Spec2Model ----
(***************************************************************************)
(* A model of the oric image-recognition demo: the inference layer         *)
(* (utils/ml-models), the image preprocessor (utils/image-processing),     *)
(* the upload component and the recognition page.                          *)
(*                                                                         *)
(* The repository holds three revisions of utils/ml-models:                *)
(*   "base"     src/src/utils/ml-models.ts                                 *)
(*   "preproc"  src/unnamed/part_004, lines 1-283                          *)
(*   "pipeline" src/unnamed/part_004, lines 284-605                        *)
(* The variable build says which one is loaded.                            *)
(***************************************************************************)
EXTENDS Integers, Sequences, FiniteSets, TLC

VARIABLES
  build,               \* which revision of utils/ml-models is loaded
  isModelLoading,      \* module-level flag: the single in-flight slot
  backendInitialized,  \* module-level flag of initializeBackend
  model,               \* model key -> cached handle (0 is null)
  loadingPromise,      \* model key -> id of the in-flight load promise (0 is null)
  loadLog,             \* every invocation of an underlying load function, in order
  call,                \* the calls of classifyImage / detectObjects
  pp,                  \* one run of preprocessImage (utils/image-processing)
  upl,                 \* state of the ImageUpload component
  page,                \* state of the recognition page
  run,                 \* the processImage call in progress
  seen,                \* what reached the input canvas, detectObjects and inference
  cv,                  \* the canvas of one run of the filters (utils/image-processing)
  ker,                 \* one call of the median or the sharpening filter
  det,                 \* one detection being mapped and drawn on the output canvas
  thr,                 \* the raw detections of one inference and what detectObjects returns
  cls,                 \* state of the classification page and its processImage call
  flow                 \* one image on its way from the page through detectObjects to the model

varsInfer ==
  <<build, isModelLoading, backendInitialized, model, loadingPromise, loadLog, call>>

varsPre == <<pp>>

varsUpload == <<upl, page, run, seen>>

varsFilter == <<cv>>

varsKernel == <<ker>>

varsCoords == <<det>>

varsThreshold == <<thr>>

varsClassify == <<cls>>

varsFlow == <<flow>>

vars ==
  <<varsInfer, varsPre, varsUpload, varsFilter, varsKernel, varsCoords, varsThreshold,
    varsClassify, varsFlow>>

----------------------------------------------------------------------------
(* Bounds *)

\* number of classifyImage / detectObjects calls the page issues in one run
NCalls == 3

Calls == 1..NCalls

----------------------------------------------------------------------------
(* utils/ml-models: module state *)

Builds == {"base", "preproc", "pipeline"}

\* keys of pipelineMap
PipelineIds ==
  {"Xenova/resnet-50", "Xenova/resnet-101", "Xenova/mobilevit-small",
   "Xenova/detr-resnet-50", "Xenova/detr-resnet-101", "Xenova/yolos-base"}

TfKeys == {"mobilenet", "coco-ssd"}

ModelKeys == TfKeys \cup PipelineIds

\* the model identifiers a caller passes, per revision
ModelIdsOf(b) ==
  IF b = "pipeline"
    THEN {"mobilenet", "coco-ssd", "Xenova/resnet-50", "Xenova/detr-resnet-50", "other"}
    ELSE {"mobilenet", "coco-ssd", "microsoft/resnet-50", "facebook/detr-resnet-50", "other"}

Tokens == {"missing", "malformed", "hf_ok"}

IdleCall ==
  [pc |-> "idle", kind |-> "none", modelId |-> "none", awaiting |-> 0, got |-> 0,
   result |-> "none"]

\* the module state as one record, so that the steps of a handler compose
cur ==
  [call |-> call, flag |-> isModelLoading, bi |-> backendInitialized,
   model |-> model, lp |-> loadingPromise, log |-> loadLog]

Set(s) ==
  /\ call' = s.call
  /\ isModelLoading' = s.flag
  /\ backendInitialized' = s.bi
  /\ model' = s.model
  /\ loadingPromise' = s.lp
  /\ loadLog' = s.log
  /\ UNCHANGED <<build, varsPre, varsUpload, varsFilter, varsKernel, varsCoords, varsThreshold, varsClassify, varsFlow>>

\* a call that has been accepted and has not settled
Outstanding(c) == call[c].pc \notin {"idle", "done"}

----------------------------------------------------------------------------
(* utils/ml-models: the steps of classifyImage and detectObjects.          *)
(* Each operator maps the module state s to the state after the step.      *)

\* the body of call c runs inside try { isModelLoading = true ... } finally
\* { isModelLoading = false }: detectObjects in every revision, classifyImage
\* in "pipeline" only
Guarded(s, c) == s.call[c].kind = "detect" \/ build = "pipeline"

\* the call settles: catch wraps the error, finally releases the slot
\* (a settled call's record keeps its kind, its handle and its result only)
Finish(s, c, res) ==
  [s EXCEPT !.call[c].pc = "done", !.call[c].result = res, !.call[c].awaiting = 0,
            !.call[c].modelId = "none",
            !.flag = IF Guarded(s, c) THEN FALSE ELSE s.flag]

\* model.classify / model.detect / pipe(...) / hf.* is awaited
StartInference(s, c, handle) ==
  [s EXCEPT !.call[c].pc = "infer", !.call[c].got = handle, !.call[c].awaiting = 0]

\* the underlying load function (mobilenet.load, cocoSsd.load, pipeline) is invoked
InvokeLoad(s, c, key) ==
  [s EXCEPT !.log = Append(s.log, [key |-> key, st |-> "pending"]),
            !.call[c].pc = "load", !.call[c].awaiting = Len(s.log) + 1]

\* loadMobilenet / loadCocoSsd after `await initializeBackend()`, without the
\* check of the loading promise
AfterBackendNoPromise(s, c, key) ==
  IF s.model[key] = 0
    THEN [InvokeLoad(s, c, key) EXCEPT !.lp[key] = Len(s.log) + 1]
    ELSE StartInference(s, c, s.model[key])

\* loadMobilenet / loadCocoSsd after `await initializeBackend()`
AfterBackend(s, c, key) ==
  IF s.model[key] = 0 /\ s.lp[key] = 0
    THEN [InvokeLoad(s, c, key) EXCEPT !.lp[key] = Len(s.log) + 1]
    ELSE IF s.lp[key] # 0
      THEN [s EXCEPT !.call[c].pc = "load", !.call[c].awaiting = s.lp[key]]
      ELSE StartInference(s, c, s.model[key])

\* loadMobilenet / loadCocoSsd up to their first suspension
EnterLoader(s, c, key) ==
  IF ~s.bi
    THEN [s EXCEPT !.call[c].pc = "backend", !.call[c].awaiting = 0]
    ELSE AfterBackend(s, c, key)

\* loadPipeline: no promise is shared, the caller awaits its own pipeline(...)
LoadPipeline(s, c, m) ==
  IF m \notin PipelineIds
    THEN Finish(s, c, "unsupported")
    ELSE IF s.model[m] # 0
      THEN StartInference(s, c, s.model[m])
      ELSE InvokeLoad(s, c, m)

\* which loader a call in pc = "backend" is inside
LoaderKey(c) == IF call[c].kind = "classify" THEN "mobilenet" ELSE "coco-ssd"

\* the model dispatch of classifyImage
DispatchClassify(s, c, token) ==
  LET m == s.call[c].modelId IN
  IF m = "mobilenet" THEN EnterLoader(s, c, "mobilenet")
  ELSE IF build = "pipeline" THEN LoadPipeline(s, c, m)
  ELSE IF m = "microsoft/resnet-50"
    THEN IF token = "missing" THEN Finish(s, c, "error") ELSE StartInference(s, c, 0)
  ELSE Finish(s, c, "unsupported")

\* a dispatch of detectObjects that falls back to COCO-SSD for other identifiers
DispatchDetectDefault(s, c, token) ==
  LET m == s.call[c].modelId IN
  IF m = "coco-ssd" THEN EnterLoader(s, c, "coco-ssd")
  ELSE IF build = "pipeline" /\ m \in PipelineIds THEN LoadPipeline(s, c, m)
  ELSE IF m = "facebook/detr-resnet-50"
    THEN IF token = "missing" \/ (build = "preproc" /\ token = "malformed")
           THEN Finish(s, c, "error")
           ELSE StartInference(s, c, 0)
  ELSE EnterLoader(s, c, "coco-ssd")

\* the model dispatch of detectObjects
DispatchDetect(s, c, token) ==
  LET m == s.call[c].modelId IN
  IF m = "coco-ssd" THEN EnterLoader(s, c, "coco-ssd")
  ELSE IF build = "pipeline" THEN LoadPipeline(s, c, m)
  ELSE IF m = "facebook/detr-resnet-50"
    THEN IF token = "missing" \/ (build = "preproc" /\ token = "malformed")
           THEN Finish(s, c, "error")
           ELSE StartInference(s, c, 0)
  ELSE Finish(s, c, "unsupported")

Dispatch(s, c, token) ==
  IF s.call[c].kind = "classify" THEN DispatchClassify(s, c, token)
                                 ELSE DispatchDetect(s, c, token)

\* a new call record
Issued(s, c, kind, m) ==
  [s EXCEPT !.call[c] = [IdleCall EXCEPT !.kind = kind, !.modelId = m]]

\* the busy guard placed inside the try block: the rejected call runs finally
RejectInsideTry(s, c) ==
  [s EXCEPT !.call[c].pc = "done", !.call[c].result = "busy", !.call[c].modelId = "none",
            !.flag = FALSE]

\* the busy guard, before the try block: the rejected call runs no finally
Reject(s, c) ==
  [s EXCEPT !.call[c].pc = "done", !.call[c].result = "busy", !.call[c].modelId = "none"]

\* classifyImage up to its first suspension
ClassifyEntry(s, c, token) ==
  IF build = "base" THEN Dispatch(s, c, token)
  ELSE IF build = "preproc" THEN [s EXCEPT !.call[c].pc = "pre"]
  ELSE IF s.flag THEN Reject(s, c)
  ELSE [s EXCEPT !.flag = TRUE, !.call[c].pc = "img"]

\* detectObjects up to its first suspension, without a busy guard
DetectEntryUnguarded(s, c, complete) ==
  [s EXCEPT !.flag = TRUE,
            !.call[c].pc = IF build = "pipeline" \/ (build = "base" /\ ~complete)
                             THEN "img" ELSE "pre"]

\* detectObjects up to its first suspension
DetectEntry(s, c, complete) ==
  IF s.flag THEN Reject(s, c)
  ELSE [s EXCEPT !.flag = TRUE,
                 !.call[c].pc = IF build = "pipeline" \/ (build = "base" /\ ~complete)
                                  THEN "img" ELSE "pre"]

\* the callers suspended on load promise id
Waiters(id) == {c \in Calls : call[c].pc = "load" /\ call[c].awaiting = id}

\* a load promise settles: every caller suspended on it resumes, in the order
\* the reactions were registered, before any other job runs
SettleLoad(s, id, ok) ==
  LET key == s.log[id].key
      W == Waiters(id)
  IN [s EXCEPT
        !.log[id].st = IF ok THEN "resolved" ELSE "rejected",
        !.model[key] = IF ok THEN id ELSE s.model[key],
        !.lp[key] = IF key \in TfKeys THEN 0 ELSE s.lp[key],
        !.flag = IF ~ok /\ (\E c \in W : Guarded(s, c)) THEN FALSE ELSE s.flag,
        !.call = [c \in Calls |->
                    IF c \notin W THEN s.call[c]
                    ELSE IF ok
                      THEN [s.call[c] EXCEPT !.pc = "infer", !.got = id, !.awaiting = 0]
                      ELSE [s.call[c] EXCEPT !.pc = "done", !.result = "error",
                                             !.awaiting = 0, !.modelId = "none"]]]

----------------------------------------------------------------------------
(* utils/ml-models: actions *)

NextToIssue(c) == call[c].pc = "idle" /\ (IF c = 1 THEN TRUE ELSE call[c - 1].pc # "idle")

ClassifyImage(c) ==
  /\ NextToIssue(c)
  /\ \E m \in ModelIdsOf(build), token \in Tokens :
       Set(ClassifyEntry(Issued(cur, c, "classify", m), c, token))

DetectObjects(c) ==
  /\ NextToIssue(c)
  /\ \E m \in ModelIdsOf(build), complete \in BOOLEAN :
       Set(DetectEntry(Issued(cur, c, "detect", m), c, complete))

\* image.onload / image.onerror, createImageFromDataUrl
ImageSettled(c) ==
  /\ call[c].pc = "img"
  /\ \E ok \in BOOLEAN :
       Set(IF ok THEN [cur EXCEPT !.call[c].pc = "pre"] ELSE Finish(cur, c, "error"))

\* the promise of preprocessImage settles
PreprocessSettled(c) ==
  /\ call[c].pc = "pre"
  /\ \E ok \in BOOLEAN, token \in Tokens :
       Set(IF ok THEN Dispatch(cur, c, token) ELSE Finish(cur, c, "error"))

\* tf.setBackend / tf.ready settle inside initializeBackend
BackendSettled(c) ==
  /\ call[c].pc = "backend"
  /\ \E ok \in BOOLEAN :
       Set(IF ok THEN AfterBackend([cur EXCEPT !.bi = TRUE], c, LoaderKey(c))
                 ELSE Finish(cur, c, "error"))

LoadSettled(id) ==
  /\ id \in 1..Len(loadLog)
  /\ loadLog[id].st = "pending"
  /\ \E ok \in BOOLEAN : Set(SettleLoad(cur, id, ok))

InferenceSettled(c) ==
  /\ call[c].pc = "infer"
  /\ \E ok \in BOOLEAN : Set(Finish(cur, c, IF ok THEN "ok" ELSE "error"))


----------------------------------------------------------------------------
(* Properties of the inference layer *)

TypeInfer ==
  /\ build \in Builds
  /\ isModelLoading \in BOOLEAN
  /\ backendInitialized \in BOOLEAN
  /\ Len(loadLog) <= NCalls
  /\ \A c \in Calls : call[c].pc \in {"idle", "img", "pre", "backend", "load", "infer", "done"}

\* C1: a detectObjects call issued while an earlier detectObjects call has not
\* settled is rejected in the same step with the busy error, whatever await
\* the earlier call is suspended at, and starts no preprocessing, no model
\* load and no inference (it leaves the module state as it was).
C1_SecondDetectIsBusy ==
  [][\A c \in Calls :
       (/\ call[c].pc = "idle"
        /\ call'[c].kind = "detect"
        /\ \E d \in Calls \ {c} : call[d].kind = "detect" /\ Outstanding(d))
       => /\ call'[c].pc = "done"
          /\ call'[c].result = "busy"
          /\ loadLog' = loadLog
          /\ isModelLoading' = isModelLoading
          /\ \A d \in Calls \ {c} : call'[d] = call[d]]_vars

\* a detectObjects call was rejected as busy and a detectObjects call is
\* suspended on a model load
C1_Witness ==
  \E c, d \in Calls :
    /\ call[c].kind = "detect" /\ call[c].result = "busy"
    /\ call[d].kind = "detect" /\ call[d].pc = "load" /\ d < c

\* C2: at most one accepted classifyImage / detectObjects request is
\* outstanding at any time.
C2_AtMostOneInFlight ==
  Cardinality({c \in Calls : Outstanding(c)}) <= 1

\* C3: model loading is single-flight and memoized. A load function is invoked
\* for a model only when every earlier load of that model was rejected (so never
\* while one is in flight, and never after one succeeded); every caller
\* suspended on a load awaits the one in-flight load of that model; and every
\* caller that got a model got the one cached for that model.
C3_SingleFlightMemoized ==
  /\ \A i, j \in 1..Len(loadLog) :
       (i < j /\ loadLog[i].key = loadLog[j].key) => loadLog[i].st = "rejected"
  /\ \A c \in Calls :
       call[c].pc = "load" => loadLog[call[c].awaiting].st = "pending"
  /\ \A c \in Calls :
       call[c].got # 0 =>
         /\ loadLog[call[c].got].st = "resolved"
         /\ model[loadLog[call[c].got].key] = call[c].got

\* two concurrent callers got the model of the same load, and a third call
\* issued after that load resolved got it from the cache
C3_Witness ==
  \E c, d, e \in Calls :
    /\ c < d /\ d < e
    /\ call[c].got # 0 /\ call[d].got = call[c].got /\ call[e].got = call[c].got
    /\ Len(loadLog) = 1
    /\ call[e].pc = "infer" /\ call[c].pc = "done" /\ call[d].pc = "done"

----------------------------------------------------------------------------
(* utils/image-processing: preprocessImage.                                *)
(* Sizes are pixels; a quality q in [0,1] is written as the percentage     *)
(* 100*q.                                                                  *)

\* DEFAULT_OPTIONS
DefaultMaxSize == 1024

DefaultMinSize == 224

DefaultQuality == 90

DefaultFormat == "image/jpeg"

\* the input size preferred for Hugging Face models
HuggingFaceSize == 800

\* the cap on maxSize for the detection task
DetectionMaxSize == 640

\* quality 1.0
MaxQuality == 100

\* Bounds on the inputs of preprocessImage
DimStep == 250

DimCount == 12

SmallMaxSize == 512

LargeMaxSize == 2048

LowMinSize == 1

LowQuality == 50

\* natural sizes: a grid, and the sizes next to each threshold of the code;
\* 0 is the naturalWidth of an image that failed to decode
Dims ==
  {k * DimStep : k \in 0..DimCount}
    \cup {c + d : c \in {DefaultMinSize, DetectionMaxSize, HuggingFaceSize, DefaultMaxSize},
                  d \in {-1, 0, 1}}
    \cup {LowMinSize}

\* the options a caller passes, merged over DEFAULT_OPTIONS; the three filter
\* flags only reach applyImageFilters
ProcessOptions ==
  [maxSize : {DefaultMaxSize, SmallMaxSize, LargeMaxSize},
   minSize : {DefaultMinSize, LowMinSize},
   quality : {DefaultQuality, LowQuality},
   format : {DefaultFormat, "image/png", "image/webp"},
   task : {"classification", "detection"},
   provider : {"none", "huggingface"}]

Min(a, b) == IF a < b THEN a ELSE b

\* Math.floor(n / d) for n >= 0, d > 0
MathFloorDiv(n, d) == n \div d

\* Math.round(n / d) for n >= 0, d > 0: the nearest integer, halves up
MathRoundDiv(n, d) == (2 * n + d) \div (2 * d)

\* the target without the Hugging Face override
EffectiveMaxSizeNoProvider(o) ==
  IF o.task = "detection" THEN Min(DetectionMaxSize, o.maxSize) ELSE o.maxSize

\* const maxSize = isHuggingFace ? 800 : (isDetection ? Math.min(640, maxSize) : maxSize)
EffectiveMaxSize(o) ==
  IF o.provider = "huggingface" THEN HuggingFaceSize
  ELSE IF o.task = "detection" THEN Min(DetectionMaxSize, o.maxSize)
  ELSE o.maxSize

\* a resize that always brings the longer side to maxSize
ScaledSizeAlways(w, h, maxSize) ==
  IF w > h
    THEN [width |-> maxSize, height |-> MathRoundDiv(h * maxSize, w)]
    ELSE [width |-> MathRoundDiv(w * maxSize, h), height |-> maxSize]

\* the resize with the short side truncated instead of rounded
ScaledSizeFloor(w, h, maxSize) ==
  IF w > maxSize \/ h > maxSize
    THEN IF w > h
      THEN [width |-> maxSize, height |-> MathFloorDiv(h * maxSize, w)]
      ELSE [width |-> MathFloorDiv(w * maxSize, h), height |-> maxSize]
    ELSE [width |-> w, height |-> h]

\* "Scale down if image is too large"
ScaledSize(w, h, maxSize) ==
  IF w > maxSize \/ h > maxSize
    THEN IF w > h
      THEN [width |-> maxSize, height |-> MathRoundDiv(h * maxSize, w)]
      ELSE [width |-> MathRoundDiv(w * maxSize, h), height |-> maxSize]
    ELSE [width |-> w, height |-> h]

\* the quality without the detection case
EncodeQualityProviderOnly(o) ==
  IF o.provider = "huggingface" THEN MaxQuality ELSE o.quality

\* const quality = isHuggingFace ? 1.0 : (isDetection ? 1.0 : processOptions.quality)
EncodeQuality(o) ==
  IF o.provider = "huggingface" THEN MaxQuality
  ELSE IF o.task = "detection" THEN MaxQuality
  ELSE o.quality

\* const format = isHuggingFace ? 'image/png' : processOptions.format
EncodeFormat(o) ==
  IF o.provider = "huggingface" THEN "image/png" ELSE o.format

\* a run that has not started
ReadyRun(w, h, o, ctxOk) ==
  [pc |-> "ready", w |-> w, h |-> h, opts |-> o, ctxOk |-> ctxOk,
   effects |-> <<>>, error |-> "none", width |-> 0, height |-> 0,
   quality |-> 0, format |-> "none"]

\* the minimum-dimension check placed after the canvas is sized and drawn
ExecutorLateCheck(r) ==
  LET o == r.opts
      size == ScaledSize(r.w, r.h, EffectiveMaxSize(o))
  IN
  IF ~r.ctxOk
    THEN [r EXCEPT !.pc = "rejected", !.error = "context",
                   !.effects = <<"getContext">>]
  ELSE IF r.w < o.minSize \/ r.h < o.minSize
    THEN [r EXCEPT !.pc = "rejected", !.error = "minSize",
                   !.effects = <<"getContext", "resize", "drawImage">>]
  ELSE [r EXCEPT !.pc = "decoding",
                 !.effects = <<"getContext", "resize", "drawImage",
                               "applyImageFilters", "toDataURL">>,
                 !.width = size.width, !.height = size.height,
                 !.quality = EncodeQuality(o), !.format = EncodeFormat(o)]

\* the promise executor of preprocessImage, up to processedImage.src = dataUrl;
\* effects lists what it did to the canvas, in order
Executor(r) ==
  LET o == r.opts
      size == ScaledSize(r.w, r.h, EffectiveMaxSize(o))
  IN
  IF ~r.ctxOk
    THEN [r EXCEPT !.pc = "rejected", !.error = "context",
                   !.effects = <<"getContext">>]
  ELSE IF r.w < o.minSize \/ r.h < o.minSize
    THEN [r EXCEPT !.pc = "rejected", !.error = "minSize",
                   !.effects = <<"getContext">>]
  ELSE [r EXCEPT !.pc = "decoding",
                 !.effects = <<"getContext", "resize", "drawImage",
                               "applyImageFilters", "toDataURL">>,
                 !.width = size.width, !.height = size.height,
                 !.quality = EncodeQuality(o), !.format = EncodeFormat(o)]

\* preprocessImage(image, options) is called
PreprocessImage ==
  /\ pp.pc = "ready"
  /\ pp' = Executor(pp)
  /\ UNCHANGED <<varsInfer, varsUpload, varsFilter, varsKernel, varsCoords, varsThreshold, varsClassify, varsFlow>>

\* processedImage.onload: the data URL of a canvas with no pixels is "data:,",
\* which never loads
ProcessedImageLoaded ==
  /\ pp.pc = "decoding"
  /\ pp.width > 0 /\ pp.height > 0
  /\ pp' = [pp EXCEPT !.pc = "resolved"]
  /\ UNCHANGED <<varsInfer, varsUpload, varsFilter, varsKernel, varsCoords, varsThreshold, varsClassify, varsFlow>>

\* processedImage.onerror
ProcessedImageError ==
  /\ pp.pc = "decoding"
  /\ pp' = [pp EXCEPT !.pc = "rejected", !.error = "load"]
  /\ UNCHANGED <<varsInfer, varsUpload, varsFilter, varsKernel, varsCoords, varsThreshold, varsClassify, varsFlow>>


----------------------------------------------------------------------------
(* Properties of preprocessImage *)

\* the executor of preprocessImage has run
Ran == pp.pc \in {"decoding", "resolved", "rejected"}

\* the canvas was encoded with toDataURL
Encoded == pp.pc \in {"decoding", "resolved"} \/ (pp.pc = "rejected" /\ pp.error = "load")

\* the natural size is below minSize in a dimension
Undersized == pp.w < pp.opts.minSize \/ pp.h < pp.opts.minSize

\* the canvas steps that follow the minimum-dimension check
CanvasSteps == {"resize", "drawImage", "applyImageFilters", "toDataURL"}

EffectSet == {pp.effects[i] : i \in 1..Len(pp.effects)}

Abs(x) == IF x < 0 THEN -x ELSE x

\* C4 as claimed: preprocessImage fails with the minimum-dimension error if
\* and only if the natural width or height is below minSize, and then before
\* any resize, draw or filter step.
C4_MinSizeIffUndersized ==
  Ran => /\ (pp.error = "minSize") <=> Undersized
         /\ pp.error = "minSize" => EffectSet \cap CanvasSteps = {}

\* C4 amended: when a 2D canvas context is obtained, preprocessImage fails
\* with the minimum-dimension error if and only if the natural width or height
\* is below minSize (without a context it fails with the canvas error first,
\* whatever the size); an undersized image is always rejected before any
\* resize, draw or filter step, and an image with both dimensions >= minSize
\* never raises the minimum-dimension error.
C4_MinSizeIffUndersizedGivenContext ==
  Ran => /\ pp.ctxOk => ((pp.error = "minSize") <=> Undersized)
         /\ ~pp.ctxOk => pp.error = "context"
         /\ ~Undersized => pp.error # "minSize"
         /\ Undersized => (pp.pc = "rejected" /\ EffectSet \cap CanvasSteps = {})

\* an image wide enough but not high enough was rejected by the check
C4_Witness ==
  /\ pp.pc = "rejected" /\ pp.error = "minSize"
  /\ pp.w >= pp.opts.minSize /\ pp.h < pp.opts.minSize /\ pp.h > 0

\* C6: an accepted image with both natural dimensions within the effective
\* target max is returned at its natural size, and no returned dimension
\* exceeds the natural one.
C6_DownscaleOnly ==
  pp.pc = "resolved" =>
    /\ (pp.w <= EffectiveMaxSize(pp.opts) /\ pp.h <= EffectiveMaxSize(pp.opts))
         => (pp.width = pp.w /\ pp.height = pp.h)
    /\ pp.width <= pp.w
    /\ pp.height <= pp.h

\* an image smaller than the target in both dimensions was returned unscaled
C6_Witness ==
  /\ pp.pc = "resolved"
  /\ pp.w < EffectiveMaxSize(pp.opts) /\ pp.h < pp.w
  /\ pp.width = pp.w /\ pp.height = pp.h

\* C7: the returned width and height are positive, and they are the natural
\* size scaled by one factor with the shorter side rounded to the nearest
\* integer (off the exact proportion by at most half a pixel).
C7_AspectRatioPreserved ==
  pp.pc = "resolved" =>
    /\ pp.width > 0 /\ pp.height > 0
    /\ pp.w > pp.h => 2 * Abs(pp.height * pp.w - pp.h * pp.width) <= pp.w
    /\ pp.w <= pp.h => 2 * Abs(pp.width * pp.h - pp.w * pp.height) <= pp.h

\* a downscaled image whose shorter side was rounded up
C7_Witness ==
  /\ pp.pc = "resolved"
  /\ pp.w > pp.h /\ pp.width < pp.w
  /\ pp.height * pp.w > pp.h * pp.width

\* C8: the target is 800 for provider huggingface, else min(640, maxSize) for
\* task detection, else maxSize; an image exceeding it in a dimension comes
\* back with its longer side equal to the target and the other side the
\* proportional value rounded to the nearest integer, an image within it comes
\* back unscaled, and both returned dimensions are at most the target.
C8_EffectiveTargetMax ==
  LET target ==
        IF pp.opts.provider = "huggingface" THEN 800
        ELSE IF pp.opts.task = "detection"
          THEN (IF pp.opts.maxSize < 640 THEN pp.opts.maxSize ELSE 640)
        ELSE pp.opts.maxSize
  IN pp.pc = "resolved" =>
       /\ pp.width <= target /\ pp.height <= target
       /\ (pp.w > target \/ pp.h > target) =>
            /\ pp.w > pp.h =>
                 (pp.width = target /\ 2 * Abs(pp.height * pp.w - pp.h * target) <= pp.w)
            /\ pp.w <= pp.h =>
                 (pp.height = target /\ 2 * Abs(pp.width * pp.h - pp.w * target) <= pp.h)
       /\ (pp.w <= target /\ pp.h <= target) => (pp.width = pp.w /\ pp.height = pp.h)

\* a detection image for a Hugging Face model, wider than 640 and not wider
\* than 800, was returned unscaled
C8_Witness ==
  /\ pp.pc = "resolved"
  /\ pp.opts.provider = "huggingface" /\ pp.opts.task = "detection"
  /\ pp.w > 640 /\ pp.w <= 800 /\ pp.h <= pp.w
  /\ pp.width = pp.w

\* C9 as claimed: the canvas is encoded with quality 1.0 as PNG whenever the
\* provider is huggingface or the task is detection, and with the configured
\* quality and format otherwise.
C9_LosslessForDetection ==
  Encoded =>
    IF pp.opts.provider = "huggingface" \/ pp.opts.task = "detection"
      THEN pp.quality = 100 /\ pp.format = "image/png"
      ELSE pp.quality = pp.opts.quality /\ pp.format = pp.opts.format

\* C9 amended: the quality is 1.0 whenever the provider is huggingface or the
\* task is detection and the configured quality otherwise; the format is PNG
\* only when the provider is huggingface and the configured format otherwise
\* (JPEG by default, also for detection).
C9_QualityAndFormat ==
  Encoded =>
    /\ pp.quality = IF pp.opts.provider = "huggingface" \/ pp.opts.task = "detection"
                      THEN 100 ELSE pp.opts.quality
    /\ pp.format = IF pp.opts.provider = "huggingface"
                     THEN "image/png" ELSE pp.opts.format

\* a detection image without a provider was encoded as JPEG at quality 1.0
C9_Witness ==
  /\ pp.pc = "resolved"
  /\ pp.opts.task = "detection" /\ pp.opts.provider = "none"
  /\ pp.opts.format = "image/jpeg" /\ pp.opts.quality = 90
  /\ pp.quality = 100 /\ pp.format = "image/jpeg"

----------------------------------------------------------------------------
(* utils/image-processing: the filters, on the pixel data of a small       *)
(* canvas.  A buffer is the sequence of its bytes, as in the source; real  *)
(* values are kept as fractions n/d until they are stored.                 *)

\* Bound: the largest canvas width and height
FilterMaxDim == 4

\* Bound: the number of pixel patterns
FilterSeeds == 6

\* the channel values the patterns are made of
Palette == <<0, 37, 128, 200, 255>>

Sample(seed, k) == Palette[((seed * k * k + 3 * k + seed) % Len(Palette)) + 1]

\* a typed array holds its elements as values
TypedArray(elements) == SubSeq(elements, 1, Len(elements))

\* ctx.drawImage(image, 0, 0, width, height): the RGBA bytes of the resized image
CanvasData(seed, w, h) == TypedArray([k \in 1..(4 * w * h) |-> Sample(seed, k)])

\* storing n/d (d > 0) in a Uint8ClampedArray: clamped to 0..255 and rounded
\* to the nearest integer, halves to even
Uint8Clamped(n, d) ==
  IF n <= 0 THEN 0
  ELSE IF n >= 255 * d THEN 255
  ELSE LET q == n \div d
           r == n % d
       IN IF 2 * r < d THEN q
          ELSE IF 2 * r > d THEN q + 1
          ELSE IF q % 2 = 0 THEN q ELSE q + 1

convertToGrayscale(data) ==
  TypedArray([i \in 1..(Len(data) \div 4) |->
     MathRoundDiv(299 * data[4 * i - 3] + 587 * data[4 * i - 2] + 114 * data[4 * i - 1],
                  1000)])

\* buffer[y * width + x]
At(buffer, width, x, y) == buffer[y * width + x + 1]

applyMedianFilter(grayscale, width, height, radius, isDetection) ==
  LET filterRadius == IF isDetection THEN 1 ELSE radius
      window == (-filterRadius..filterRadius) \X (-filterRadius..filterRadius)
      Value(x, y, d) == At(grayscale, width, x + d[1], y + d[2])
      \* values.sort(...)[Math.floor(values.length / 2)]
      Middle(x, y) ==
        CHOOSE v \in {Value(x, y, d) : d \in window} :
          /\ Cardinality({d \in window : Value(x, y, d) < v}) <= Cardinality(window) \div 2
          /\ Cardinality({d \in window : Value(x, y, d) <= v}) > Cardinality(window) \div 2
  IN TypedArray([i \in 1..Len(grayscale) |->
        LET x == (i - 1) % width
            y == (i - 1) \div width
        IN IF /\ x >= filterRadius /\ x < width - filterRadius
              /\ y >= filterRadius /\ y < height - filterRadius
             THEN Middle(x, y)
             ELSE grayscale[i]])

applySharpeningFilter(grayscale, width, height, isDetection) ==
  LET Cross(x, y) == At(grayscale, width, x, y - 1) + At(grayscale, width, x - 1, y)
                     + At(grayscale, width, x + 1, y) + At(grayscale, width, x, y + 1)
  IN TypedArray([i \in 1..Len(grayscale) |->
        LET x == (i - 1) % width
            y == (i - 1) \div width
        IN IF x >= 1 /\ x < width - 1 /\ y >= 1 /\ y < height - 1
             THEN IF isDetection
                    THEN Uint8Clamped(6 * grayscale[i] - Cross(x, y), 2)
                    ELSE Uint8Clamped(5 * grayscale[i] - Cross(x, y), 1)
             ELSE grayscale[i]])

\* the pixels of the block at (bx, by)
BlockPixels(width, bx, by, blockWidth, blockHeight) ==
  {(by + y) * width + (bx + x) + 1 : x \in 0..(blockWidth - 1), y \in 0..(blockHeight - 1)}

RECURSIVE SumOver(_, _)
SumOver(buffer, pixels) ==
  IF pixels = {} THEN 0
  ELSE LET i == CHOOSE j \in pixels : TRUE
       IN buffer[i] + SumOver(buffer, pixels \ {i})

calculateBlockStats(grayscale, width, bx, by, blockWidth, blockHeight) ==
  LET pixels == BlockPixels(width, bx, by, blockWidth, blockHeight)
  IN [sum |-> SumOver(grayscale, pixels),
      min |-> CHOOSE v \in {grayscale[i] : i \in pixels} :
                \A i \in pixels : v <= grayscale[i],
      max |-> CHOOSE v \in {grayscale[i] : i \in pixels} :
                \A i \in pixels : v >= grayscale[i]]

\* maxContrast and contrastLimit are given in halves (4 is 2.0, 3 is 1.5)
applyAdaptiveContrast(grayscale, width, height, blockSize, maxContrast, isDetection) ==
  LET contrastLimit == IF isDetection THEN 3 ELSE maxContrast
  IN TypedArray([i \in 1..Len(grayscale) |->
        LET bx == (((i - 1) % width) \div blockSize) * blockSize
            by == (((i - 1) \div width) \div blockSize) * blockSize
            blockWidth == Min(blockSize, width - bx)
            blockHeight == Min(blockSize, height - by)
            stats == calculateBlockStats(grayscale, width, bx, by, blockWidth, blockHeight)
            count == blockWidth * blockHeight
            range == stats.max - stats.min
            \* scale = Math.min(contrastLimit, 1 / contrast), as sn/sd
            limited == range = 0 \/ contrastLimit * range <= 2 * 255
            sn == IF limited THEN contrastLimit ELSE 255
            sd == IF limited THEN 2 ELSE range
        IN \* mean + scale * (value - mean), mean = sum / count
           Uint8Clamped(stats.sum * sd + sn * (grayscale[i] * count - stats.sum),
                        count * sd)])

applyEnhancedGrayscale(data, grayscale) ==
  TypedArray([k \in 1..Len(data) |->
     LET i == (k - 1) \div 4 + 1
         total == data[4 * i - 3] + data[4 * i - 2] + data[4 * i - 1]
     IN IF (k - 1) % 4 = 3 THEN data[k]
        ELSE IF total = 0 THEN Uint8Clamped(data[k] * grayscale[i], 1)
        ELSE Uint8Clamped(3 * data[k] * grayscale[i], total)])

\* the else branch with the sharpening filter ahead of the median filter
ClassificationPipelineSharpenFirst(data, width, height, options) ==
  LET gray == convertToGrayscale(data)
      sharpened == IF options.sharpen
                     THEN applySharpeningFilter(gray, width, height, FALSE) ELSE gray
      denoised == IF options.denoise
                    THEN applyMedianFilter(sharpened, width, height, 1, FALSE)
                    ELSE sharpened
      contrasted == IF options.enhanceContrast
                      THEN applyAdaptiveContrast(denoised, width, height, 8, 4, FALSE)
                      ELSE denoised
  IN [data |-> applyEnhancedGrayscale(data, contrasted),
      stages |-> <<"convertToGrayscale">>
                 \o (IF options.sharpen THEN <<"applySharpeningFilter">> ELSE <<>>)
                 \o (IF options.denoise THEN <<"applyMedianFilter">> ELSE <<>>)
                 \o (IF options.enhanceContrast THEN <<"applyAdaptiveContrast">> ELSE <<>>)
                 \o <<"applyEnhancedGrayscale", "putImageData">>]

\* the else branch of applyImageFilters: "full enhancement pipeline"
ClassificationPipeline(data, width, height, options) ==
  LET gray == convertToGrayscale(data)
      denoised == IF options.denoise
                    THEN applyMedianFilter(gray, width, height, 1, FALSE) ELSE gray
      sharpened == IF options.sharpen
                     THEN applySharpeningFilter(denoised, width, height, FALSE)
                     ELSE denoised
      contrasted == IF options.enhanceContrast
                      THEN applyAdaptiveContrast(sharpened, width, height, 8, 4, FALSE)
                      ELSE sharpened
  IN [data |-> applyEnhancedGrayscale(data, contrasted),
      stages |-> <<"convertToGrayscale">>
                 \o (IF options.denoise THEN <<"applyMedianFilter">> ELSE <<>>)
                 \o (IF options.sharpen THEN <<"applySharpeningFilter">> ELSE <<>>)
                 \o (IF options.enhanceContrast THEN <<"applyAdaptiveContrast">> ELSE <<>>)
                 \o <<"applyEnhancedGrayscale", "putImageData">>]

\* applyImageFilters without the return on the detection path
applyImageFiltersAlways(data, width, height, options) ==
  ClassificationPipeline(data, width, height, options)

\* applyImageFilters: the canvas bytes it leaves, and the stages it ran
applyImageFilters(data, width, height, options) ==
  IF options.task = "detection"
    THEN [data |-> data, stages |-> <<>>]
    ELSE ClassificationPipeline(data, width, height, options)

\* the options of a filter run: DEFAULT_OPTIONS overridden by the caller's
FilterOptions ==
  [task : {"classification", "detection"}, provider : {"none", "huggingface"},
   denoise : BOOLEAN, sharpen : BOOLEAN, enhanceContrast : BOOLEAN,
   quality : {DefaultQuality}, format : {DefaultFormat}]

\* the canvas after ctx.drawImage
DrawnCanvas(w, h, seed, o) ==
  [pc |-> "drawn", width |-> w, height |-> h, opts |-> o,
   resized |-> CanvasData(seed, w, h), data |-> CanvasData(seed, w, h),
   stages |-> <<>>, encoded |-> <<>>]

\* preprocessImage from applyImageFilters(ctx, ...) to canvas.toDataURL(format, quality)
FilterAndEncode ==
  /\ cv.pc = "drawn"
  /\ LET out == applyImageFilters(cv.data, cv.width, cv.height, cv.opts)
     IN cv' = [cv EXCEPT !.pc = "encoded", !.data = out.data, !.stages = out.stages,
                         !.encoded = <<EncodeFormat(cv.opts), EncodeQuality(cv.opts),
                                       out.data>>]
  /\ UNCHANGED <<varsInfer, varsPre, varsUpload, varsKernel, varsCoords, varsThreshold, varsClassify, varsFlow>>

\* C10: with task 'detection', for every combination of the denoise, sharpen
\* and enhanceContrast flags, the canvas bytes at toDataURL are exactly the
\* bytes the resize drew: no filter stage ran and none wrote to the canvas.
C10_DetectionSkipsFilters ==
  (cv.pc = "encoded" /\ cv.opts.task = "detection") =>
    /\ cv.data = cv.resized
    /\ cv.stages = <<>>
    /\ cv.encoded[3] = cv.resized

\* a detection run with all three flags set, on a canvas the classification
\* pipeline would have rewritten
C10_Witness ==
  /\ cv.pc = "encoded"
  /\ cv.opts.task = "detection"
  /\ cv.opts.denoise /\ cv.opts.sharpen /\ cv.opts.enhanceContrast
  /\ cv.width >= 3 /\ cv.height >= 3
  /\ applyImageFiltersAlways(cv.resized, cv.width, cv.height, cv.opts).data # cv.resized
  /\ cv.data = cv.resized

\* the stages of the classification pipeline in their fixed order, each with
\* the flag that enables it
StageOrder(o) ==
  <<<<"convertToGrayscale", TRUE>>, <<"applyMedianFilter", o.denoise>>,
    <<"applySharpeningFilter", o.sharpen>>, <<"applyAdaptiveContrast", o.enhanceContrast>>,
    <<"applyEnhancedGrayscale", TRUE>>, <<"putImageData", TRUE>>>>

Enabled(stage) == stage[2]

\* C23: with task 'classification' the stages run in the order grayscale,
\* median denoise, sharpen, adaptive contrast, luminance reapply; denoise,
\* sharpen and adaptive contrast run exactly when their flag is set, grayscale
\* and reapply always, and each stage works on the output of the stage before.
C23_ClassificationStageOrder ==
  (cv.pc = "encoded" /\ cv.opts.task = "classification") =>
    LET o == cv.opts
        w == cv.width
        h == cv.height
        g0 == convertToGrayscale(cv.resized)
        g1 == IF o.denoise THEN applyMedianFilter(g0, w, h, 1, FALSE) ELSE g0
        g2 == IF o.sharpen THEN applySharpeningFilter(g1, w, h, FALSE) ELSE g1
        g3 == IF o.enhanceContrast THEN applyAdaptiveContrast(g2, w, h, 8, 4, FALSE) ELSE g2
        ran == SelectSeq(StageOrder(o), Enabled)
    IN /\ cv.stages = [k \in 1..Len(ran) |-> ran[k][1]]
       /\ cv.data = applyEnhancedGrayscale(cv.resized, g3)

\* a classification run with the three flags set on a canvas where running
\* the sharpening filter ahead of the median filter gives other bytes
C23_Witness ==
  /\ cv.pc = "encoded"
  /\ cv.opts.task = "classification"
  /\ cv.opts.denoise /\ cv.opts.sharpen /\ cv.opts.enhanceContrast
  /\ cv.stages = <<"convertToGrayscale", "applyMedianFilter", "applySharpeningFilter",
                   "applyAdaptiveContrast", "applyEnhancedGrayscale", "putImageData">>
  /\ ClassificationPipelineSharpenFirst(cv.resized, cv.width, cv.height, cv.opts).data
       # cv.data

\* the grayscale buffer applyImageFilters hands to applyEnhancedGrayscale
FilteredGrayscale(data, width, height, o) ==
  LET g0 == convertToGrayscale(data)
      g1 == IF o.denoise THEN applyMedianFilter(g0, width, height, 1, FALSE) ELSE g0
      g2 == IF o.sharpen THEN applySharpeningFilter(g1, width, height, FALSE) ELSE g1
  IN IF o.enhanceContrast THEN applyAdaptiveContrast(g2, width, height, 8, 4, FALSE) ELSE g2

\* 1000 * (0.299 R + 0.587 G + 0.114 B) of pixel i
Luminance1000(data, i) ==
  299 * data[4 * i - 3] + 587 * data[4 * i - 2] + 114 * data[4 * i - 1]

Distance(a, b) == IF a >= b THEN a - b ELSE b - a

\* pixel i is not black and none of its channels times ratio exceeds 255
ScaledUnclamped(data, grayscale, i) ==
  LET total == data[4 * i - 3] + data[4 * i - 2] + data[4 * i - 1]
  IN /\ total > 0
     /\ \A c \in 1..3 : 3 * data[4 * i - 4 + c] * grayscale[i] <= 255 * total

\* the output channels of pixel i stand in the ratios of the input channels,
\* each output channel being rounded to an integer
RatiosPreserved(before, after, i) ==
  \A c, d \in 1..3 :
    LET p == 4 * i - 4 + c
        q == 4 * i - 4 + d
    IN 2 * Distance(after[p] * before[q], after[q] * before[p]) <= before[p] + before[q]

\* C26: after applyEnhancedGrayscale, for every pixel that is not black and
\* whose scaled channels are not clamped, the luminance 0.299R + 0.587G +
\* 0.114B of the output pixel is within one grey level of the filtered
\* grayscale value, and the ratios between R, G and B are those of the input;
\* every output channel lies in [0,255] and alpha is unchanged.
C26_FilteredLuminanceImposed ==
  (cv.pc = "encoded" /\ cv.opts.task = "classification") =>
    LET g == FilteredGrayscale(cv.resized, cv.width, cv.height, cv.opts)
    IN /\ \A k \in 1..Len(cv.data) : cv.data[k] \in 0..255
       /\ \A i \in 1..(cv.width * cv.height) :
            /\ cv.data[4 * i] = cv.resized[4 * i]
            /\ ScaledUnclamped(cv.resized, g, i) =>
                 /\ Distance(Luminance1000(cv.data, i), 1000 * g[i]) <= 1000
                 /\ RatiosPreserved(cv.resized, cv.data, i)

----------------------------------------------------------------------------
(* utils/image-processing: applyMedianFilter and applySharpeningFilter as   *)
(* loops over buffers in memory.  A memory maps the names of the function's *)
(* buffers to their contents: grayscale is the argument, temp and result    *)
(* are the copies the function allocates.                                   *)

\* Bound: the largest width and height of a grayscale buffer
KernelMaxDim == 5

\* Bound: the number of grayscale patterns
KernelSeeds == 4

\* the requested radii of the median filter
Radii == {1, 2}

GrayData(seed, w, h) == TypedArray([k \in 1..(w * h) |-> Sample(seed, k)])

\* const temp = new Uint8ClampedArray(grayscale); const result = new Uint8ClampedArray(grayscale)
Allocate(grayscale) ==
  [grayscale |-> grayscale, temp |-> grayscale, result |-> grayscale]

\* the indices y * width + x the two for loops visit, in the order they visit them
LoopIndices(width, height, r) ==
  LET visited == {i \in 1..(width * height) :
                    /\ (i - 1) % width >= r /\ (i - 1) % width < width - r
                    /\ (i - 1) \div width >= r /\ (i - 1) \div width < height - r}
  IN TypedArray([k \in 1..Cardinality(visited) |->
                   CHOOSE i \in visited : Cardinality({j \in visited : j < i}) = k - 1])

\* values.sort((a, b) => a - b)[Math.floor(values.length / 2)] of the window at (x, y)
MiddleValue(buffer, width, x, y, r) ==
  LET window == (-r..r) \X (-r..r)
      Value(d) == At(buffer, width, x + d[1], y + d[2])
  IN CHOOSE v \in {Value(d) : d \in window} :
       /\ Cardinality({d \in window : Value(d) < v}) <= Cardinality(window) \div 2
       /\ Cardinality({d \in window : Value(d) <= v}) > Cardinality(window) \div 2

\* the loop body of applyMedianFilter over the indices todo, reading the
\* buffer named src and writing the buffer named dst
RECURSIVE MedianLoop(_, _, _, _, _, _)
MedianLoop(m, width, r, todo, src, dst) ==
  IF todo = <<>> THEN m
  ELSE LET i == Head(todo)
           v == MiddleValue(m[src], width, (i - 1) % width, (i - 1) \div width, r)
       IN MedianLoop([m EXCEPT ![dst][i] = v], width, r, Tail(todo), src, dst)

\* a median filter that works on its argument in place
applyMedianFilterInPlace(grayscale, width, height, radius, isDetection) ==
  LET filterRadius == IF isDetection THEN 1 ELSE radius
      m == MedianLoop(Allocate(grayscale), width, filterRadius,
                      LoopIndices(width, height, filterRadius), "grayscale", "grayscale")
  IN [m EXCEPT !.result = m.grayscale]

\* a median filter that takes the requested radius in detection mode too
applyMedianFilterRequestedRadius(grayscale, width, height, radius, isDetection) ==
  MedianLoop(Allocate(grayscale), width, radius,
             LoopIndices(width, height, radius), "temp", "result")

\* applyMedianFilter: the memory when it returns result
applyMedianFilterMemory(grayscale, width, height, radius, isDetection) ==
  LET filterRadius == IF isDetection THEN 1 ELSE radius
  IN MedianLoop(Allocate(grayscale), width, filterRadius,
                LoopIndices(width, height, filterRadius), "temp", "result")

\* sum of temp[...] * kernel[ky][kx], as a fraction sum[1] / sum[2]
SharpenSum(buffer, width, x, y, isDetection) ==
  LET cross == At(buffer, width, x, y - 1) + At(buffer, width, x - 1, y)
               + At(buffer, width, x + 1, y) + At(buffer, width, x, y + 1)
      centre == At(buffer, width, x, y)
  IN IF isDetection THEN <<6 * centre - cross, 2>> ELSE <<5 * centre - cross, 1>>

RECURSIVE SharpenLoop(_, _, _, _, _, _)
SharpenLoop(m, width, isDetection, todo, src, dst) ==
  IF todo = <<>> THEN m
  ELSE LET i == Head(todo)
           sum == SharpenSum(m[src], width, (i - 1) % width, (i - 1) \div width, isDetection)
       IN SharpenLoop([m EXCEPT ![dst][i] = Uint8Clamped(sum[1], sum[2])],
                      width, isDetection, Tail(todo), src, dst)

\* applySharpeningFilter: the memory when it returns result
applySharpeningFilterMemory(grayscale, width, height, isDetection) ==
  SharpenLoop(Allocate(grayscale), width, isDetection,
              LoopIndices(width, height, 1), "temp", "result")

\* a call of one of the two filters, not yet run
KernelCall(filter, w, h, seed, radius, isDetection) ==
  [pc |-> "called", filter |-> filter, width |-> w, height |-> h,
   radius |-> radius, isDetection |-> isDetection,
   input |-> GrayData(seed, w, h), mem |-> Allocate(GrayData(seed, w, h))]

\* applyMedianFilter(grayscale, width, height, radius, isDetection) runs
RunMedianFilter ==
  /\ ker.pc = "called" /\ ker.filter = "median"
  /\ ker' = [ker EXCEPT !.pc = "returned",
                        !.mem = applyMedianFilterMemory(ker.input, ker.width, ker.height,
                                                        ker.radius, ker.isDetection)]
  /\ UNCHANGED <<varsInfer, varsPre, varsUpload, varsFilter, varsCoords, varsThreshold, varsClassify, varsFlow>>

\* applySharpeningFilter(grayscale, width, height, isDetection) runs
RunSharpeningFilter ==
  /\ ker.pc = "called" /\ ker.filter = "sharpen"
  /\ ker' = [ker EXCEPT !.pc = "returned",
                        !.mem = applySharpeningFilterMemory(ker.input, ker.width, ker.height,
                                                            ker.isDetection)]
  /\ UNCHANGED <<varsInfer, varsPre, varsUpload, varsFilter, varsCoords, varsThreshold, varsClassify, varsFlow>>

\* the radius the filter of this call works with
KernelRadius ==
  IF ker.filter = "sharpen" \/ ker.isDetection THEN 1 ELSE ker.radius

\* the pixels within r pixels of an edge
BorderIndices(width, height, r) ==
  {i \in 1..(width * height) :
     \/ (i - 1) % width < r \/ (i - 1) % width >= width - r
     \/ (i - 1) \div width < r \/ (i - 1) \div width >= height - r}

\* C11: for every buffer, width and height, images smaller than the window
\* included, the median filter leaves every pixel within its radius of an edge
\* at its input value and the sharpening filter leaves the outermost 1-pixel
\* border at its input value; neither writes to its input buffer.  The
\* returned buffer is the one the filter operators of the pipeline compute.
C11_BorderInvariance ==
  (ker.pc = "returned" /\ ker.filter \in {"median", "sharpen"}) =>
    /\ \A i \in BorderIndices(ker.width, ker.height, KernelRadius) :
         ker.mem.result[i] = ker.input[i]
    /\ ker.mem.grayscale = ker.input
    /\ Len(ker.mem.result) = Len(ker.input)
    /\ ker.filter = "median" =>
         ker.mem.result = applyMedianFilter(ker.input, ker.width, ker.height,
                                            ker.radius, ker.isDetection)
    /\ ker.filter = "sharpen" =>
         ker.mem.result = applySharpeningFilter(ker.input, ker.width, ker.height,
                                                ker.isDetection)

\* a run that rewrote an interior pixel and has border pixels to keep
C11_Witness ==
  /\ ker.pc = "returned"
  /\ ker.filter \in {"median", "sharpen"}
  /\ ker.mem.result # ker.input
  /\ ker.mem.grayscale = ker.input
  /\ \A i \in BorderIndices(ker.width, ker.height, KernelRadius) :
       ker.mem.result[i] = ker.input[i]

\* the (2r+1)^2 values around (x, y), row by row, sorted in ascending order
SortedNeighbourhood(buffer, width, x, y, r) ==
  LET side == 2 * r + 1
  IN SortSeq([k \in 1..(side * side) |->
                At(buffer, width, x - r + ((k - 1) % side), y - r + ((k - 1) \div side))],
             LAMBDA a, b : a < b)

\* C24: every pixel at least r from every edge gets the element of index
\* floor(n/2) of its sorted (2r+1)^2 neighbourhood in the unmodified input,
\* where r is 1 in detection mode whatever radius was requested and the
\* requested radius otherwise.
C24_InteriorMedian ==
  (ker.pc = "returned" /\ ker.filter = "median") =>
    LET r == IF ker.isDetection THEN 1 ELSE ker.radius
        n == (2 * r + 1) * (2 * r + 1)
    IN \A i \in (1..(ker.width * ker.height)) \ BorderIndices(ker.width, ker.height, r) :
         ker.mem.result[i] =
           SortedNeighbourhood(ker.input, ker.width, (i - 1) % ker.width,
                               (i - 1) \div ker.width, r)[n \div 2 + 1]

\* a detection-mode call with radius 2 requested on a 5x5 buffer: nine
\* interior pixels for radius 1, some of them rewritten
C24_Witness ==
  /\ ker.pc = "returned" /\ ker.filter = "median"
  /\ ker.isDetection /\ ker.radius = 2
  /\ ker.width = 5 /\ ker.height = 5
  /\ Cardinality({i \in 1..25 : ker.mem.result[i] # ker.input[i]}) >= 2

----------------------------------------------------------------------------
(* app/recognition/page: mapping a detection to the output canvas and       *)
(* drawing its box.  Two revisions are in the sources: "inline" (layout.tsx *)
(* lines 30-491, mapping and clamp inside processImage) and "refactored"    *)
(* (recognition/page.tsx, convertCoordinates / drawRecognitionResult).      *)
(* JavaScript numbers are kept as fractions <<n, d>> in lowest terms.       *)

\* prepareInputCanvas: the fixed size of the model input canvas
CocoCanvasWidth == 640

CocoCanvasHeight == 480

OtherCanvasWidth == 800

OtherCanvasHeight == 600

RECURSIVE GCD(_, _)
GCD(a, b) == IF b = 0 THEN a ELSE GCD(b, a % b)

\* n / d in lowest terms, d # 0
Frac(n, d) ==
  LET g == GCD(Abs(n), Abs(d))
      s == IF d < 0 THEN -1 ELSE 1
  IN IF n = 0 THEN <<0, 1>> ELSE <<(s * n) \div g, (s * d) \div g>>

Num(n) == <<n, 1>>

FSub(a, b) == Frac(a[1] * b[2] - b[1] * a[2], a[2] * b[2])

FMul(a, b) == Frac(a[1] * b[1], a[2] * b[2])

FDiv(a, b) == Frac(a[1] * b[2], a[2] * b[1])

FAdd(a, b) == Frac(a[1] * b[2] + b[1] * a[2], a[2] * b[2])

FLeq(a, b) == a[1] * b[2] <= b[1] * a[2]

\* Math.min / Math.max
FMin(a, b) == IF FLeq(a, b) THEN a ELSE b

FMax(a, b) == IF FLeq(a, b) THEN b ELSE a

PageRevisions == {"inline", "refactored"}

\* the identifiers for which modelId.includes('detr') || modelId.includes('yolos')
CornerPairIds ==
  {"facebook/detr-resnet-50", "Xenova/detr-resnet-50", "Xenova/detr-resnet-101",
   "Xenova/yolos-base"}

\* an identifier of neither detector family
UnknownModelId == "unknown/model"

DetectorIds == CornerPairIds \cup {"coco-ssd", UnknownModelId}

\* natural sizes of uploaded images
ImageSizes == {<<640, 480>>, <<1200, 960>>, <<1280, 1200>>, <<300, 600>>}

\* the components of a raw bbox
BoxFirst == {0, 20, 100}

BoxSecond == {0, 30, 50}

BoxThird == {-10, 0, 100, 200, 600, 700}

BoxFourth == {-10, 0, 40, 150, 480}

\* prepareInputCanvas (and the same lines of the inline revision): the
\* letterbox of an image of size w x h on the standard canvas
prepareInputCanvas(w, h, modelId) ==
  LET standardWidth == IF modelId = "coco-ssd" THEN CocoCanvasWidth ELSE OtherCanvasWidth
      standardHeight == IF modelId = "coco-ssd" THEN CocoCanvasHeight ELSE OtherCanvasHeight
      scale == FMin(Frac(standardWidth, w), Frac(standardHeight, h))
      scaledWidth == FMul(Num(w), scale)
      scaledHeight == FMul(Num(h), scale)
  IN [scaledWidth |-> scaledWidth, scaledHeight |-> scaledHeight,
      offsetX |-> FDiv(FSub(Num(standardWidth), scaledWidth), Num(2)),
      offsetY |-> FDiv(FSub(Num(standardHeight), scaledHeight), Num(2))]

\* the origin+extent branch of convertCoordinates
ExtentMapping(bbox, canvas, scaling) ==
  LET scaleX == FDiv(Num(canvas.width), scaling.scaledWidth)
      scaleY == FDiv(Num(canvas.height), scaling.scaledHeight)
  IN [x |-> FMul(FSub(Num(bbox[1]), scaling.offsetX), scaleX),
      y |-> FMul(FSub(Num(bbox[2]), scaling.offsetY), scaleY),
      width |-> FMul(Num(bbox[3]), scaleX),
      height |-> FMul(Num(bbox[4]), scaleY)]

\* convertCoordinates with the letterbox offsets subtracted in both branches
convertCoordinatesOffsetAlways(bbox, modelId, canvas, scaling) ==
  ExtentMapping(<<bbox[1], bbox[2], bbox[3] - bbox[1], bbox[4] - bbox[2]>>, canvas, scaling)

\* convertCoordinates without the letterbox offsets in either branch
convertCoordinatesNoOffset(bbox, modelId, canvas, scaling) ==
  LET scaleX == FDiv(Num(canvas.width), scaling.scaledWidth)
      scaleY == FDiv(Num(canvas.height), scaling.scaledHeight)
  IN IF modelId \in CornerPairIds
       THEN [x |-> FMul(Num(bbox[1]), scaleX), y |-> FMul(Num(bbox[2]), scaleY),
             width |-> FMul(Num(bbox[3] - bbox[1]), scaleX),
             height |-> FMul(Num(bbox[4] - bbox[2]), scaleY)]
       ELSE [x |-> FMul(Num(bbox[1]), scaleX), y |-> FMul(Num(bbox[2]), scaleY),
             width |-> FMul(Num(bbox[3]), scaleX), height |-> FMul(Num(bbox[4]), scaleY)]

\* convertCoordinates (refactored revision)
convertCoordinates(bbox, modelId, canvas, scaling) ==
  LET scaleX == FDiv(Num(canvas.width), scaling.scaledWidth)
      scaleY == FDiv(Num(canvas.height), scaling.scaledHeight)
  IN IF modelId \in CornerPairIds
       THEN [x |-> FMul(Num(bbox[1]), scaleX),
             y |-> FMul(Num(bbox[2]), scaleY),
             width |-> FMul(Num(bbox[3] - bbox[1]), scaleX),
             height |-> FMul(Num(bbox[4] - bbox[2]), scaleY)]
       ELSE ExtentMapping(bbox, canvas, scaling)

\* the mapping inside processImage of the inline revision: relative corner
\* pairs for facebook/detr-resnet-50, letterbox coordinates otherwise
InlineMapping(bbox, modelId, canvas, scaling) ==
  IF modelId = "facebook/detr-resnet-50"
    THEN [x |-> Num(bbox[1] * canvas.width),
          y |-> Num(bbox[2] * canvas.height),
          width |-> Num((bbox[3] - bbox[1]) * canvas.width),
          height |-> Num((bbox[4] - bbox[2]) * canvas.height)]
    ELSE ExtentMapping(bbox, canvas, scaling)

\* a clamp whose width is cut to the canvas and then reduced by x
ClampToCanvasSubtracting(b, canvas) ==
  LET x == FMax(Num(0), FMin(b.x, FSub(Num(canvas.width), b.width)))
      y == FMax(Num(0), FMin(b.y, FSub(Num(canvas.height), b.height)))
  IN [x |-> x, y |-> y,
      width |-> FSub(FMin(b.width, Num(canvas.width)), x),
      height |-> FSub(FMin(b.height, Num(canvas.height)), y)]

\* "Ensure coordinates are within canvas bounds" (inline revision)
ClampToCanvas(b, canvas) ==
  LET x == FMax(Num(0), FMin(b.x, FSub(Num(canvas.width), b.width)))
      y == FMax(Num(0), FMin(b.y, FSub(Num(canvas.height), b.height)))
  IN [x |-> x, y |-> y,
      width |-> FMin(b.width, FSub(Num(canvas.width), x)),
      height |-> FMin(b.height, FSub(Num(canvas.height), y))]

\* one detection about to be drawn on the output canvas of an image
Detection(rev, modelId, size, bbox) ==
  [pc |-> "detected", rev |-> rev, modelId |-> modelId, bbox |-> bbox,
   canvas |-> [width |-> size[1], height |-> size[2]],
   scaling |-> prepareInputCanvas(size[1], size[2], modelId),
   mapped |-> <<>>, drawn |-> <<>>]

\* inline revision: the body of typedResults.forEach up to fillRect / strokeRect
DrawInline ==
  /\ det.pc = "detected" /\ det.rev = "inline"
  /\ LET mapped == InlineMapping(det.bbox, det.modelId, det.canvas, det.scaling)
     IN det' = [det EXCEPT !.pc = "drawn", !.mapped = mapped,
                           !.drawn = ClampToCanvas(mapped, det.canvas)]
  /\ UNCHANGED <<varsInfer, varsPre, varsUpload, varsFilter, varsKernel, varsThreshold, varsClassify, varsFlow>>

\* refactored revision: drawRecognitionResult, convertCoordinates then drawBoundingBox
DrawRecognitionResult ==
  /\ det.pc = "detected" /\ det.rev = "refactored"
  /\ LET coords == convertCoordinates(det.bbox, det.modelId, det.canvas, det.scaling)
     IN det' = [det EXCEPT !.pc = "drawn", !.mapped = coords, !.drawn = coords]
  /\ UNCHANGED <<varsInfer, varsPre, varsUpload, varsFilter, varsKernel, varsThreshold, varsClassify, varsFlow>>

\* the raw detection has non-negative extent under its model's convention
NonNegativeExtent ==
  IF (det.rev = "refactored" /\ det.modelId \in CornerPairIds)
       \/ (det.rev = "inline" /\ det.modelId = "facebook/detr-resnet-50")
    THEN det.bbox[3] >= det.bbox[1] /\ det.bbox[4] >= det.bbox[2]
    ELSE det.bbox[3] >= 0 /\ det.bbox[4] >= 0

\* the box b lies within the canvas
WithinCanvas(b, canvas) ==
  /\ FLeq(Num(0), b.x)
  /\ FLeq(Num(0), b.y)
  /\ FLeq(FAdd(b.x, b.width), Num(canvas.width))
  /\ FLeq(FAdd(b.y, b.height), Num(canvas.height))

\* C12: every box drawn for a raw detection of non-negative extent lies fully
\* within the output canvas: 0 <= x, 0 <= y, x + width <= destWidth and
\* y + height <= destHeight.
C12_DrawnBoxWithinCanvas ==
  (det.pc = "drawn" /\ NonNegativeExtent) => WithinCanvas(det.drawn, det.canvas)

\* C13: applying the post-mapping clamp to a clamped box gives the same box,
\* also when the box is wider or higher than the canvas.
C13_ClampIdempotent ==
  (det.pc = "drawn" /\ det.rev = "inline") =>
    /\ det.drawn = ClampToCanvas(det.mapped, det.canvas)
    /\ ClampToCanvas(det.drawn, det.canvas) = det.drawn

\* a clamped box that was wider than the canvas, and moved by the clamp
C13_Witness ==
  /\ det.pc = "drawn" /\ det.rev = "inline"
  /\ ~FLeq(det.mapped.width, Num(det.canvas.width))
  /\ det.drawn # det.mapped
  /\ ClampToCanvas(det.drawn, det.canvas) = det.drawn

\* C14: for a corner-pair identifier convertCoordinates maps
\* [xmin, ymin, xmax, ymax] to x = xmin*scaleX, y = ymin*scaleY,
\* width = (xmax-xmin)*scaleX, height = (ymax-ymin)*scaleY with
\* scaleX = destWidth/scaledWidth, scaleY = destHeight/scaledHeight and no
\* offsets; with both scales 2, [100,50,200,150] maps to {200,100,200,200}.
C14_CornerPairMapping ==
  (det.pc = "drawn" /\ det.rev = "refactored" /\ det.modelId \in CornerPairIds) =>
    /\ FMul(det.mapped.x, det.scaling.scaledWidth) = Num(det.bbox[1] * det.canvas.width)
    /\ FMul(det.mapped.y, det.scaling.scaledHeight) = Num(det.bbox[2] * det.canvas.height)
    /\ FMul(det.mapped.width, det.scaling.scaledWidth)
         = Num((det.bbox[3] - det.bbox[1]) * det.canvas.width)
    /\ FMul(det.mapped.height, det.scaling.scaledHeight)
         = Num((det.bbox[4] - det.bbox[2]) * det.canvas.height)
    /\ (/\ det.bbox = <<100, 50, 200, 150>>
        /\ FDiv(Num(det.canvas.width), det.scaling.scaledWidth) = Num(2)
        /\ FDiv(Num(det.canvas.height), det.scaling.scaledHeight) = Num(2))
         => det.mapped = [x |-> Num(200), y |-> Num(100),
                         width |-> Num(200), height |-> Num(200)]

\* the example of C14, on a letterbox with a non-zero offset
C14_Witness ==
  /\ det.pc = "drawn" /\ det.rev = "refactored" /\ det.modelId \in CornerPairIds
  /\ det.bbox = <<100, 50, 200, 150>>
  /\ det.scaling.scaledWidth = Num(640) /\ det.canvas.width = 1280
  /\ det.scaling.offsetX # Num(0)
  /\ det.mapped = [x |-> Num(200), y |-> Num(100), width |-> Num(200), height |-> Num(200)]

\* C15: for an origin+extent identifier convertCoordinates maps [x, y, width,
\* height] to x = (x-offsetX)*scaleX, y = (y-offsetY)*scaleY, width*scaleX,
\* height*scaleY; with offsetX 20, offsetY 0 and both scales 2, [20,30,100,40]
\* maps to {0,60,200,80}; the box of the letterboxed image area maps to the
\* whole canvas.
C15_OriginExtentMapping ==
  (det.pc = "drawn" /\ det.rev = "refactored" /\ det.modelId = "coco-ssd") =>
    /\ FMul(det.mapped.x, det.scaling.scaledWidth)
         = FMul(FSub(Num(det.bbox[1]), det.scaling.offsetX), Num(det.canvas.width))
    /\ FMul(det.mapped.y, det.scaling.scaledHeight)
         = FMul(FSub(Num(det.bbox[2]), det.scaling.offsetY), Num(det.canvas.height))
    /\ FMul(det.mapped.width, det.scaling.scaledWidth) = Num(det.bbox[3] * det.canvas.width)
    /\ FMul(det.mapped.height, det.scaling.scaledHeight) = Num(det.bbox[4] * det.canvas.height)
    /\ (/\ det.bbox = <<20, 30, 100, 40>>
        /\ det.scaling.offsetX = Num(20) /\ det.scaling.offsetY = Num(0)
        /\ FDiv(Num(det.canvas.width), det.scaling.scaledWidth) = Num(2)
        /\ FDiv(Num(det.canvas.height), det.scaling.scaledHeight) = Num(2))
         => det.mapped = [x |-> Num(0), y |-> Num(60), width |-> Num(200), height |-> Num(80)]
    /\ (/\ Num(det.bbox[1]) = det.scaling.offsetX /\ Num(det.bbox[2]) = det.scaling.offsetY
        /\ Num(det.bbox[3]) = det.scaling.scaledWidth
        /\ Num(det.bbox[4]) = det.scaling.scaledHeight)
         => det.mapped = [x |-> Num(0), y |-> Num(0), width |-> Num(det.canvas.width),
                         height |-> Num(det.canvas.height)]

\* the box of the letterboxed image area, with a non-zero offset, mapped to
\* the whole canvas
C15_Witness ==
  /\ det.pc = "drawn" /\ det.rev = "refactored" /\ det.modelId = "coco-ssd"
  /\ det.scaling.offsetX = Num(20)
  /\ det.bbox = <<20, 0, 600, 480>>
  /\ det.mapped = [x |-> Num(0), y |-> Num(0), width |-> Num(1200), height |-> Num(960)]

\* C18: given an identifier of neither detector family, the coordinate mapper
\* fails instead of returning a mapped box.
C18_UnknownModelRejected ==
  (det.pc = "drawn" /\ det.rev = "refactored" /\ det.modelId = UnknownModelId) =>
    det.drawn = <<>>

----------------------------------------------------------------------------
(* components/ImageUpload and app/recognition/page: the upload-then-detect  *)
(* flow.                                                                    *)

\* Bound: the number of files the user uploads in one run
MaxUploads == 2

\* the minimum natural size handleImageLoad accepts
UploadMinSize == 224

\* natural widths and heights of the uploaded files
UploadDims == {UploadMinSize - 1, UploadMinSize}

NoImage == [id |-> 0, w |-> 0, h |-> 0, kind |-> "none"]

\* models.recognition, as offered by the ModelSelector
RecognitionModels == {"coco-ssd", "Xenova/detr-resnet-50"}

TooSmall(img) == img.w < UploadMinSize \/ img.h < UploadMinSize

\* const displayImage = processedImage ?? preview
DisplayImage(u, pg) ==
  IF pg.processedImage # NoImage THEN pg.processedImage ELSE u.preview

\* handleImageSelect
HandleImageSelect(pg, imageData) ==
  [pg EXCEPT !.image = imageData, !.processedImage = NoImage, !.recognitions = 0,
             !.error = "none", !.hasNoRecognitions = FALSE]

\* the state after a handler, rendered: the preview <img> is mounted while
\* there is an image to display, and a new src has its load event outstanding
Render(u, pg, r, sn) ==
  /\ ~cls.mounted
  /\ upl' = [u EXCEPT !.pending =
               IF DisplayImage(u, pg) = NoImage THEN FALSE
               ELSE IF DisplayImage(u, pg) # DisplayImage(upl, page) THEN TRUE
               ELSE u.pending]
  /\ page' = pg
  /\ run' = r
  /\ seen' = sn
  /\ UNCHANGED <<varsInfer, varsPre, varsFilter, varsKernel, varsCoords, varsThreshold, varsClassify, varsFlow>>

\* isProcessed={!!processedImage || hasNoRecognitions}
IsProcessed == page.processedImage # NoImage \/ page.hasNoRecognitions

\* onDrop with an accepted file, or the "Change Image" button: processFile
UploadFileUpTo(limit) ==
  /\ upl.uploads < limit
  /\ DisplayImage(upl, page) = NoImage \/ ~IsProcessed
  /\ \E w \in UploadDims, h \in UploadDims :
       LET img == [id |-> upl.uploads + 1, w |-> w, h |-> h, kind |-> "upload"] IN
       Render([upl EXCEPT !.uploads = upl.uploads + 1,
                          !.reading = upl.reading \cup {img},
                          !.error = IF DisplayImage(upl, page) = NoImage
                                      THEN "none" ELSE upl.error],
              page, run, seen)

UploadFile == UploadFileUpTo(MaxUploads)

\* onDrop with fileRejections
RejectFile ==
  /\ DisplayImage(upl, page) = NoImage
  /\ Render([upl EXCEPT !.error = "rejected"], page, run, seen)

\* reader.onload: setPreview(imageData); onImageSelect(imageData)
ReaderLoaded ==
  \E img \in upl.reading :
    Render([upl EXCEPT !.reading = upl.reading \ {img}, !.preview = img],
           HandleImageSelect(page, img), run, seen)

\* reader.onerror
ReaderError ==
  \E img \in upl.reading :
    Render([upl EXCEPT !.reading = upl.reading \ {img}, !.error = "read"],
           page, run, seen)

\* clearImage: setPreview(null); onImageSelect(null)
ClearedUpload(u) == [u EXCEPT !.preview = NoImage]

\* handleImageLoad, on the load event of the preview <img>
HandleImageLoad(u, pg) ==
  IF TooSmall(DisplayImage(u, pg))
    THEN <<ClearedUpload([u EXCEPT !.pending = FALSE, !.error = "dimensions"]),
           HandleImageSelect(pg, NoImage)>>
    ELSE <<[u EXCEPT !.pending = FALSE], pg>>

PreviewLoaded ==
  /\ DisplayImage(upl, page) # NoImage
  /\ upl.pending
  /\ Render(HandleImageLoad(upl, page)[1], HandleImageLoad(upl, page)[2], run, seen)

\* the overlay buttons that call clearImage
ClearImage ==
  /\ DisplayImage(upl, page) # NoImage
  /\ Render(ClearedUpload(upl), HandleImageSelect(page, NoImage), run, seen)

\* the dismiss button of the upload error
DismissError ==
  /\ upl.error # "none"
  /\ Render([upl EXCEPT !.error = "none"], page, run, seen)

\* ModelSelector onModelChange
SelectModel ==
  \E m \in RecognitionModels :
    /\ m # page.selectedModel
    /\ Render(upl, [page EXCEPT !.selectedModel = m], run, seen)

IdleRun == [pc |-> "idle", img |-> NoImage, modelId |-> "none"]

\* a catch block that also reports "no objects"
FailRunFlagged(pg) ==
  [pg EXCEPT !.error = "failed", !.isProcessing = FALSE, !.hasNoRecognitions = TRUE]

\* processImage: catch sets the error, finally clears isProcessing
FailRun(pg) == [pg EXCEPT !.error = "failed", !.isProcessing = FALSE]

\* the "Detect Objects" button: processImage up to `await` of the image load
ClickDetect ==
  /\ page.image # NoImage
  /\ page.processedImage = NoImage
  /\ ~page.hasNoRecognitions
  /\ ~page.isProcessing
  /\ Render(upl,
            [page EXCEPT !.isProcessing = TRUE, !.error = "none", !.recognitions = 0,
                         !.processedImage = NoImage, !.hasNoRecognitions = FALSE],
            [pc |-> "imgload", img |-> page.image, modelId |-> page.selectedModel],
            seen)

\* processImage after the image load: prepareInputCanvas draws the image on
\* the letterboxed canvas, prepareOutputCanvas copies it, detectObjects is called
RunImageSettled ==
  /\ run.pc = "imgload"
  /\ \E out \in {"loaded", "loadError", "noContext"} :
       IF out = "loaded"
         THEN Render(upl, page, [run EXCEPT !.pc = "detect"],
                     [seen EXCEPT !.inputCanvas = run.img, !.detectArg = run.img])
         ELSE Render(upl, FailRun(page), IdleRun, [seen EXCEPT !.outcome = "error"])

\* the size of the image handed to detectObjects: the input canvas for
\* coco-ssd, the uploaded image otherwise
ModelInputSize(r) ==
  IF r.modelId = "coco-ssd"
    THEN [w |-> CocoCanvasWidth, h |-> CocoCanvasHeight]
    ELSE [w |-> r.img.w, h |-> r.img.h]

\* detectObjects settles and processImage runs to its end
DetectSettled ==
  /\ run.pc = "detect"
  /\ \E out \in {"results", "empty", "error", "drawError"} :
       IF ModelInputSize(run).w < DefaultMinSize \/ ModelInputSize(run).h < DefaultMinSize
            \/ out = "error"
         THEN Render(upl, FailRun(page), IdleRun, [seen EXCEPT !.outcome = "error"])
       ELSE IF out = "empty"
         THEN Render(upl,
                     [page EXCEPT !.hasNoRecognitions = TRUE, !.error = "no-objects",
                                  !.isProcessing = FALSE],
                     IdleRun, [seen EXCEPT !.inferred = run.img, !.outcome = "empty"])
       ELSE IF out = "drawError"
         \* setRecognitions(results) has run when drawImage, drawRecognitionResult
         \* or toDataURL throws
         THEN Render(upl, FailRun([page EXCEPT !.recognitions = run.img.id]),
                     IdleRun, [seen EXCEPT !.inferred = run.img, !.outcome = "error"])
       ELSE Render(upl,
                   [page EXCEPT !.recognitions = run.img.id,
                                !.processedImage = [run.img EXCEPT !.kind = "result"],
                                !.isProcessing = FALSE],
                   IdleRun, [seen EXCEPT !.inferred = run.img, !.outcome = "results"])

\* C5: an uploaded image below 224 pixels in a dimension is never drawn on the
\* letterboxed input canvas, never passed to detectObjects and never reaches
\* model inference.
C5_UndersizedNeverProcessed ==
  /\ ~TooSmall(seen.inputCanvas) \/ seen.inputCanvas = NoImage
  /\ ~TooSmall(seen.detectArg) \/ seen.detectArg = NoImage
  /\ ~TooSmall(seen.inferred) \/ seen.inferred = NoImage

----------------------------------------------------------------------------
(* utils/ml-models: what detectObjects returns of a model's raw detections. *)
(* Scores are in hundredths.                                                *)

\* result.score > 0.35
ScoreThreshold == 35

\* Bound: the longest list of raw detections
MaxDetections == 3

\* the scores a raw detection can have
Scores == {20, ScoreThreshold - 1, ScoreThreshold, 40, 90}

\* the lists of raw detections: the i-th has the position i and a score
RawLists ==
  UNION {[1..n -> Scores] : n \in 0..MaxDetections}

\* the two detector families of detectObjects
Families == {"coco-ssd", "pipeline"}

\* results.filter(result => result.score > 0.35) and, for the pipeline
\* family, .map(...) of each kept detection to {bbox, class, score}
FilterDetections(raw) ==
  SelectSeq([i \in 1..Len(raw) |-> [pos |-> i, score |-> raw[i]]],
            LAMBDA d : d.score > ScoreThreshold)

\* model.detect(...) has resolved with raw
RawResults(family, raw) ==
  [pc |-> "inferred", family |-> family, raw |-> raw, returned |-> <<>>]

\* detectObjects with coco-ssd, after model.detect
ReturnCocoSsd ==
  /\ thr.pc = "inferred" /\ thr.family = "coco-ssd"
  /\ thr' = [thr EXCEPT !.pc = "returned", !.returned = FilterDetections(thr.raw)]
  /\ UNCHANGED <<varsInfer, varsPre, varsUpload, varsFilter, varsKernel, varsCoords, varsClassify, varsFlow>>

\* detectObjects with a pipeline or Hugging Face detector, after the inference
ReturnPipeline ==
  /\ thr.pc = "inferred" /\ thr.family = "pipeline"
  /\ thr' = [thr EXCEPT !.pc = "returned", !.returned = FilterDetections(thr.raw)]
  /\ UNCHANGED <<varsInfer, varsPre, varsUpload, varsFilter, varsKernel, varsCoords, varsClassify, varsFlow>>

\* C16: detectObjects returns exactly the raw detections whose score is at or
\* above 0.35, in their original order, for both detector families.
C16_AtOrAboveThresholdKept ==
  thr.pc = "returned" =>
    thr.returned = SelectSeq([i \in 1..Len(thr.raw) |-> [pos |-> i, score |-> thr.raw[i]]],
                             LAMBDA d : d.score >= ScoreThreshold)

----------------------------------------------------------------------------
(* utils/ml-models: identifiers outside the models list *)

\* the identifiers of the exported models list of a revision
KnownIds(b) ==
  IF b = "pipeline"
    THEN {"mobilenet", "coco-ssd"} \cup PipelineIds
    ELSE {"mobilenet", "microsoft/resnet-50", "coco-ssd", "facebook/detr-resnet-50"}

\* the state s, reached by a step of call c, shows the call failed as
\* unsupported with no load invoked and the slot free when no other call is
\* outstanding
FailedUnsupported(s, c) ==
  /\ s.call[c].pc = "done"
  /\ s.call[c].result = "unsupported"
  /\ s.log = loadLog
  /\ s.model = model
  /\ (\A d \in Calls \ {c} : ~Outstanding(d)) => s.flag = FALSE

\* C17: with a valid image and no other request in flight, classifyImage and
\* detectObjects called with an identifier outside the models list fail with
\* the unsupported-model error; no model load and no inference is invoked for
\* such a call, and the in-flight flag is released afterwards.
C17_UnsupportedModelFails ==
  \A c \in Calls : \A m \in ModelIdsOf(build) \ KnownIds(build) :
    /\ (call[c].pc = "idle" /\ ~isModelLoading) =>
         /\ \A token \in Tokens :
              LET s == ClassifyEntry(Issued(cur, c, "classify", m), c, token)
              IN s.call[c].pc \in {"img", "pre"} \/ FailedUnsupported(s, c)
         /\ \A complete \in BOOLEAN :
              DetectEntry(Issued(cur, c, "detect", m), c, complete).call[c].pc
                \in {"img", "pre"}
    /\ call[c].modelId = m =>
         /\ call[c].pc \in {"img", "pre"}
         /\ call[c].pc = "pre" =>
              \A token \in Tokens : FailedUnsupported(Dispatch(cur, c, token), c)

\* a call failed as unsupported: nothing was loaded, the flag is released
C17_Witness ==
  \E c \in Calls :
    /\ call[c].result = "unsupported"
    /\ call[c].kind = "detect"
    /\ \A d \in Calls \ {c} : call[d].pc = "idle"
    /\ loadLog = <<>>
    /\ ~isModelLoading

----------------------------------------------------------------------------
(* The classification page (app/classification/page.tsx): handleImageSelect *)
(* and processImage.  An image is named by the number of its upload, 0 is   *)
(* null; predictions hold the number of the image they were computed from.  *)

ClassificationModels == {"mobilenet", "Xenova/resnet-50"}

\* the useState initial values
ClassificationPage ==
  [mounted |-> TRUE, image |-> 0, predictions |-> 0, isProcessing |-> FALSE,
   error |-> "none", hasNoClassifications |-> FALSE, selectedModel |-> "mobilenet",
   pc |-> "idle", img |-> 0, outcome |-> "none"]

\* handleImageSelect(imageData), called by ImageUpload with a data URL or null
ClsImageSelect ==
  /\ cls.mounted
  /\ \E imageData \in 0..MaxUploads :
       /\ imageData # cls.image
       /\ cls' = [cls EXCEPT !.image = imageData, !.predictions = 0, !.error = "none",
                             !.hasNoClassifications = FALSE]
  /\ UNCHANGED <<varsInfer, varsPre, varsUpload, varsFilter, varsKernel, varsCoords,
                 varsThreshold, varsFlow>>

\* ModelSelector onModelChange={setSelectedModel}, disabled={!!image}
ClsSelectModel ==
  /\ cls.mounted
  /\ cls.image = 0
  /\ \E m \in ClassificationModels :
       /\ m # cls.selectedModel
       /\ cls' = [cls EXCEPT !.selectedModel = m]
  /\ UNCHANGED <<varsInfer, varsPre, varsUpload, varsFilter, varsKernel, varsCoords,
                 varsThreshold, varsFlow>>

\* the "Classify" button: processImage up to `await classifyImage(...)`
ClsClickClassify ==
  /\ cls.mounted
  /\ cls.image # 0
  /\ cls.predictions = 0
  /\ ~cls.hasNoClassifications
  /\ ~cls.isProcessing
  /\ cls' = [cls EXCEPT !.isProcessing = TRUE, !.error = "none", !.predictions = 0,
                        !.hasNoClassifications = FALSE, !.pc = "classify",
                        !.img = cls.image, !.outcome = "none"]
  /\ UNCHANGED <<varsInfer, varsPre, varsUpload, varsFilter, varsKernel, varsCoords,
                 varsThreshold, varsFlow>>

\* processImage with the catch block and no finally block
ClsFailRunNoFinally(c) == [c EXCEPT !.error = "failed"]

\* processImage: catch sets the error, finally clears isProcessing
ClsFailRun(c) == [c EXCEPT !.error = "failed", !.isProcessing = FALSE]

\* classifyImage settles: processImage runs to its end
ClsClassifySettled ==
  /\ cls.mounted
  /\ cls.pc = "classify"
  /\ \E out \in {"results", "empty", "error"} :
       cls' = [(IF out = "error"
                  THEN ClsFailRun(cls)
                ELSE IF out = "empty"
                  THEN [cls EXCEPT !.hasNoClassifications = TRUE, !.error = "no-classes",
                                   !.isProcessing = FALSE]
                ELSE [cls EXCEPT !.predictions = cls.img, !.isProcessing = FALSE])
               EXCEPT !.pc = "idle", !.img = 0, !.outcome = out]
  /\ UNCHANGED <<varsInfer, varsPre, varsUpload, varsFilter, varsKernel, varsCoords,
                 varsThreshold, varsFlow>>

\* C19: whenever a processImage run of the recognition or the classification
\* page has ended in the failure path, the page shows no results of that run:
\* recognitions / predictions and processedImage are null and the error
\* message of the catch block is the one message set.
C19_NoPartialResultsOnFailure ==
  /\ (~page.isProcessing /\ page.error = "failed") =>
       page.recognitions = 0 /\ page.processedImage = NoImage
  /\ (cls.mounted /\ ~cls.isProcessing /\ cls.error = "failed") => cls.predictions = 0

\* C20: an inference that returns no detection / classification ends
\* processImage in the no-results state (flag set, results null, the
\* "nothing found" message), every run that ends in the catch block leaves the
\* flag unset, so the two kinds of end state differ in the page state.
C20_NoResultsIsNotFailure ==
  [][/\ (run.pc # "idle" /\ run'.pc = "idle") =>
          /\ ~page'.isProcessing
          /\ seen'.outcome = "empty" =>
               /\ page'.hasNoRecognitions
               /\ page'.recognitions = 0 /\ page'.processedImage = NoImage
               /\ page'.error = "no-objects"
          /\ seen'.outcome = "error" =>
               ~page'.hasNoRecognitions /\ page'.error = "failed"
          /\ page'.hasNoRecognitions <=> seen'.outcome = "empty"
     /\ (cls.mounted /\ cls.pc # "idle" /\ cls'.pc = "idle") =>
          /\ ~cls'.isProcessing
          /\ cls'.outcome = "empty" =>
               /\ cls'.hasNoClassifications
               /\ cls'.predictions = 0
               /\ cls'.error = "no-classes"
          /\ cls'.outcome = "error" =>
               ~cls'.hasNoClassifications /\ cls'.error = "failed"
          /\ cls'.hasNoClassifications <=> cls'.outcome = "empty"]_vars

\* a detection run has ended with no detections
C20_Witness ==
  /\ run.pc = "idle"
  /\ seen.outcome = "empty"
  /\ page.hasNoRecognitions
  /\ page.error = "no-objects"
  /\ page.image # NoImage

\* ---------------------------------------------------------------------------
\* The letterbox of prepareInputCanvas in the arithmetic of the JavaScript
\* number type (IEEE 754 binary64, round to nearest, ties to even).
\*
\* A number is [sign, bits, e]: sign in {-1, 0, 1}, bits the binary digits from
\* the leading 1 to the last 1, e the exponent of the leading digit; zero is
\* [sign |-> 0, bits |-> <<>>, e |-> 0].  A number is a double when it has at
\* most Precision digits.
\* ---------------------------------------------------------------------------

\* digits of the significand of a double
Precision == 53

\* digits after the binary point that the long division produces
FractionLength == 64

Zero == [sign |-> 0, bits |-> <<>>, e |-> 0]

\* a digit sequence given position by position, as a sequence
Digits(f) == SubSeq(f, 1, Len(f))

RECURSIVE BitsOf(_)
BitsOf(n) == IF n = 0 THEN <<>> ELSE Append(BitsOf(n \div 2), n % 2)

\* the n-digit binary numeral of q
FixedBits(q, n) == Digits([k \in 1..n |-> (q \div (2 ^ (n - k))) % 2])

StripLeading(bits) ==
  IF \A i \in 1..Len(bits) : bits[i] = 0 THEN <<>>
  ELSE SubSeq(bits, CHOOSE i \in 1..Len(bits) :
                      bits[i] = 1 /\ \A j \in 1..(i - 1) : bits[j] = 0,
              Len(bits))

StripTrailing(bits) ==
  IF \A i \in 1..Len(bits) : bits[i] = 0 THEN <<>>
  ELSE SubSeq(bits, 1, CHOOSE i \in 1..Len(bits) :
                         bits[i] = 1 /\ \A j \in (i + 1)..Len(bits) : bits[j] = 0)

Zeros(n) == Digits([k \in 1..n |-> 0])

\* the number with the given digits, lsb being the exponent of the last digit
Canonical(sign, bits, lsb) ==
  LET lead == StripLeading(bits)
  IN IF lead = <<>> THEN Zero
     ELSE [sign |-> sign, bits |-> StripTrailing(lead), e |-> lsb + Len(lead) - 1]

\* exponent of the last digit
LsbExp(x) == x.e - Len(x.bits) + 1

FromInt(n) == Canonical(1, BitsOf(n), 0)

\* bits + 1: the trailing ones become zeros and the last zero becomes one
Increment(bits) ==
  IF \A i \in 1..Len(bits) : bits[i] = 1 THEN <<1>> \o Zeros(Len(bits))
  ELSE LET last == CHOOSE i \in 1..Len(bits) :
                     bits[i] = 0 /\ \A j \in (i + 1)..Len(bits) : bits[j] = 1
       IN SubSeq(bits, 1, last - 1) \o <<1>> \o Zeros(Len(bits) - last)

\* the double nearest to the number with the given digits, ties to even
RoundToDouble(sign, bits, lsb) ==
  LET lead == StripLeading(bits)
      kept == SubSeq(lead, 1, Precision)
      rest == SubSeq(lead, Precision + 1, Len(lead))
      up == /\ rest[1] = 1
            /\ \/ kept[Precision] = 1
               \/ \E i \in 2..Len(rest) : rest[i] = 1
  IN IF Len(lead) <= Precision THEN Canonical(sign, lead, lsb)
     ELSE Canonical(sign, IF up THEN Increment(kept) ELSE kept, lsb + Len(rest))

\* the result of an arithmetic operator whose exact value is x
Fl(x) == RoundToDouble(x.sign, x.bits, LsbExp(x))

\* 8 * n digits of rem / d after the binary point, eight at a time, and the
\* remainder left
RECURSIVE FractionBits(_, _, _)
FractionBits(rem, d, n) ==
  IF n = 0 THEN [bits |-> <<>>, rem |-> rem]
  ELSE LET rest == FractionBits((256 * rem) % d, d, n - 1)
       IN [bits |-> FixedBits((256 * rem) \div d, 8) \o rest.bits, rem |-> rest.rem]

\* a / b for positive integers: the quotient to FractionLength digits with a
\* last digit that records a remainder, rounded
Quotient(a, b) ==
  LET frac == FractionBits(a % b, b, FractionLength \div 8)
  IN RoundToDouble(1, BitsOf(a \div b) \o frac.bits \o <<IF frac.rem > 0 THEN 1 ELSE 0>>,
                   -(FractionLength + 1))

\* the digits of x from exponent top down to exponent lsb
Aligned(x, top, lsb) ==
  Zeros(top - x.e) \o x.bits \o Zeros(LsbExp(x) - lsb)

\* first is below second, digit sequences of one length
Below(first, second) ==
  \E i \in 1..Len(first) :
    /\ first[i] < second[i]
    /\ \A j \in 1..(i - 1) : first[j] = second[j]

\* first - second for first >= second, digit sequences of one length: a
\* position borrows when the digits after it, up to the first difference,
\* have first below second
MinusBits(first, second) ==
  LET n == Len(first)
      borrow(i) == \E k \in (i + 1)..n :
                     /\ first[k] < second[k]
                     /\ \A j \in (i + 1)..(k - 1) : first[j] = second[j]
  IN Digits([i \in 1..n |->
               (first[i] - second[i] - (IF borrow(i) THEN 1 ELSE 0) + 2) % 2])

\* first + second, digit sequences of one length, with one more digit in
\* front: a position receives a carry when a pair of ones after it is reached
\* through positions holding exactly one 1
PlusBits(first, second) ==
  LET n == Len(first)
      carry(i) == \E k \in (i + 1)..n :
                    /\ first[k] + second[k] = 2
                    /\ \A j \in (i + 1)..(k - 1) : first[j] + second[j] = 1
  IN <<IF carry(0) THEN 1 ELSE 0>>
       \o Digits([i \in 1..n |->
                    (first[i] + second[i] + (IF carry(i) THEN 1 ELSE 0)) % 2])

Greater(m, n) == IF m >= n THEN m ELSE n
Lesser(m, n) == IF m <= n THEN m ELSE n

Negated(x) == [x EXCEPT !.sign = -@]

\* a - b for a, b >= 0, exactly
MagnitudeDifference(a, b) ==
  LET top == Greater(a.e, b.e)
      lsb == Lesser(LsbExp(a), LsbExp(b))
      first == Aligned(a, top, lsb)
      second == Aligned(b, top, lsb)
  IN IF b.sign = 0 THEN a
     ELSE IF a.sign = 0 THEN Negated(b)
     ELSE IF Below(first, second) THEN Canonical(-1, MinusBits(second, first), lsb)
     ELSE Canonical(1, MinusBits(first, second), lsb)

\* a + b for a, b >= 0, exactly
MagnitudeSum(a, b) ==
  LET top == Greater(a.e, b.e)
      lsb == Lesser(LsbExp(a), LsbExp(b))
  IN IF b.sign = 0 THEN a
     ELSE IF a.sign = 0 THEN b
     ELSE Canonical(1, PlusBits(Aligned(a, top, lsb), Aligned(b, top, lsb)), lsb)

\* a + b for a >= 0, exactly
Sum(a, b) ==
  IF b.sign >= 0 THEN MagnitudeSum(a, b) ELSE MagnitudeDifference(a, Negated(b))

\* x / 2 and 2 * x: exact in binary
Halved(x) == IF x.sign = 0 THEN x ELSE [x EXCEPT !.e = @ - 1]
Doubled(x) == IF x.sign = 0 THEN x ELSE [x EXCEPT !.e = @ + 1]

\* n * x for a positive integer n and x >= 0, exactly: x times the last digit
\* of n, plus twice x times the digits before it
RECURSIVE Product(_, _)
Product(n, x) ==
  IF n = 0 THEN Zero
  ELSE MagnitudeSum(IF n % 2 = 1 THEN x ELSE Zero, Doubled(Product(n \div 2, x)))


\* a <= b for a, b >= 0
AtMost(a, b) == MagnitudeDifference(b, a).sign >= 0

\* prepareInputCanvas over doubles: scale, scaledWidth, scaledHeight, offsetX,
\* offsetY as the statements compute them
LetterboxNumbers(w, h, modelId) ==
  LET standardWidth == IF modelId = "coco-ssd" THEN CocoCanvasWidth ELSE OtherCanvasWidth
      standardHeight == IF modelId = "coco-ssd" THEN CocoCanvasHeight ELSE OtherCanvasHeight
      byWidth == Quotient(standardWidth, w)
      byHeight == Quotient(standardHeight, h)
      scale == IF AtMost(byWidth, byHeight) THEN byWidth ELSE byHeight
      scaledWidth == Fl(Product(w, scale))
      scaledHeight == Fl(Product(h, scale))
  IN [standardWidth |-> standardWidth, standardHeight |-> standardHeight,
      scale |-> scale, scaledWidth |-> scaledWidth, scaledHeight |-> scaledHeight,
      offsetX |-> Halved(Fl(MagnitudeDifference(FromInt(standardWidth), scaledWidth))),
      offsetY |-> Halved(Fl(MagnitudeDifference(FromInt(standardHeight), scaledHeight)))]

----------------------------------------------------------------------------
(* The detection flow of one image: processImage of the recognition page   *)
(* prepares the canvases, detectObjects resizes what it is given and hands *)
(* it to the model, the model's boxes are emitted as bbox arrays and the    *)
(* page maps them with convertCoordinates.                                  *)

\* models.recognition of a revision of utils/ml-models
RecognitionIdsOf(lib) ==
  IF lib = "pipeline"
    THEN {"coco-ssd", "Xenova/detr-resnet-50", "Xenova/detr-resnet-101", "Xenova/yolos-base"}
    ELSE {"coco-ssd", "facebook/detr-resnet-50"}

\* natural widths and heights of the images
FlowDims == {200, 226, 300, 480, 500, 600, 640, 800, 960, 1200, 1280}

\* the image has loaded: `await new Promise(... img.onload ...)` has resolved
LoadedImage(lib, modelId, w, h) ==
  [pc |-> "loaded", lib |-> lib, modelId |-> modelId, w |-> w, h |-> h]

\* processImage: prepareInputCanvas, prepareOutputCanvas, modelInput.  `content`
\* is where the uploaded image lies inside the model input.
PrepareCanvases ==
  /\ flow.pc = "loaded"
  /\ LET s == prepareInputCanvas(flow.w, flow.h, flow.modelId)
         coco == flow.modelId = "coco-ssd"
     IN flow' =
          [pc |-> "prepared", lib |-> flow.lib, modelId |-> flow.modelId,
           w |-> flow.w, h |-> flow.h,
           scaling |-> s,
           letterbox |-> LetterboxNumbers(flow.w, flow.h, flow.modelId),
           canvas |-> [width |-> flow.w, height |-> flow.h],
           modelInput |-> IF coco
                            THEN [width |-> CocoCanvasWidth, height |-> CocoCanvasHeight]
                            ELSE [width |-> flow.w, height |-> flow.h],
           content |-> IF coco
                         THEN [x |-> s.offsetX, y |-> s.offsetY,
                               width |-> s.scaledWidth, height |-> s.scaledHeight]
                         ELSE [x |-> Num(0), y |-> Num(0),
                               width |-> Num(flow.w), height |-> Num(flow.h)]]
  /\ UNCHANGED <<varsInfer, varsPre, varsUpload, varsFilter, varsKernel, varsCoords,
                 varsThreshold, varsClassify>>

\* preprocessImage of the base revision of utils/ml-models: MAX_SIZE 1024, the
\* canvas width / height attribute truncates the quotient
BaseScaledSize(w, h) ==
  IF w > DefaultMaxSize \/ h > DefaultMaxSize
    THEN IF w > h
      THEN [width |-> DefaultMaxSize, height |-> MathFloorDiv(h * DefaultMaxSize, w)]
      ELSE [width |-> MathFloorDiv(w * DefaultMaxSize, h), height |-> DefaultMaxSize]
    ELSE [width |-> w, height |-> h]

\* the options detectObjects passes to preprocessImage (utils/image-processing)
DetectionOptions(lib, modelId) ==
  [maxSize |-> DefaultMaxSize, minSize |-> DefaultMinSize, quality |-> DefaultQuality,
   format |-> DefaultFormat, task |-> "detection",
   provider |-> IF lib = "preproc" /\ modelId = "facebook/detr-resnet-50"
                  THEN "huggingface" ELSE "none"]

\* the size of the image detectObjects gives to the model
ModelImageSize(lib, modelId, w, h) ==
  IF lib = "base"
    THEN BaseScaledSize(w, h)
    ELSE ScaledSize(w, h, EffectiveMaxSize(DetectionOptions(lib, modelId)))

\* detectObjects up to the inference: preprocessImage rejects an undersized
\* input (not in the base revision) or resizes it
DetectPreprocess ==
  /\ flow.pc = "prepared"
  /\ LET in == flow.modelInput
         size == ModelImageSize(flow.lib, flow.modelId, in.width, in.height)
         fx == Frac(size.width, in.width)
         fy == Frac(size.height, in.height)
     IN IF flow.lib # "base" /\ (in.width < DefaultMinSize \/ in.height < DefaultMinSize)
          THEN flow' = [pc |-> "rejected", lib |-> flow.lib, modelId |-> flow.modelId,
                        w |-> flow.w, h |-> flow.h]
          ELSE flow' =
                 [pc |-> "inferring", lib |-> flow.lib, modelId |-> flow.modelId,
                  w |-> flow.w, h |-> flow.h, scaling |-> flow.scaling,
                  canvas |-> flow.canvas, modelImage |-> size,
                  content |-> [x |-> FMul(flow.content.x, fx),
                               y |-> FMul(flow.content.y, fy),
                               width |-> FMul(flow.content.width, fx),
                               height |-> FMul(flow.content.height, fy)]]
  /\ UNCHANGED <<varsInfer, varsPre, varsUpload, varsFilter, varsKernel, varsCoords,
                 varsThreshold, varsClassify>>

\* a fraction that is a whole number
Integral(f) == f[2] = 1

\* the boxes the model may report, as corners <<xmin, ymin, xmax, ymax>> in the
\* image it was given: the whole image, the uploaded image inside it, a box
\* away from the origin
ReportedBoxes(f) ==
  {<<0, 0, f.modelImage.width, f.modelImage.height>>, <<10, 20, 110, 120>>}
    \cup (IF Integral(f.content.x) /\ Integral(f.content.y)
               /\ Integral(f.content.width) /\ Integral(f.content.height)
            THEN {<<f.content.x[1], f.content.y[1],
                    f.content.x[1] + f.content.width[1],
                    f.content.y[1] + f.content.height[1]>>}
            ELSE {})

\* coco-ssd reports bbox = [x, y, width, height]; every revision passes it on
CocoBbox(box) == <<box[1], box[2], box[3] - box[1], box[4] - box[2]>>

\* base and preproc revisions, Hugging Face response:
\* bbox: [box.xmin, box.ymin, box.xmax - box.xmin, box.ymax - box.ymin]
HuggingFaceBbox(box) == <<box[1], box[2], box[3] - box[1], box[4] - box[2]>>

\* pipeline revision: bbox: [box.xmin, box.ymin, box.xmax, box.ymax]
PipelineBbox(box) == <<box[1], box[2], box[3], box[4]>>

\* the bbox array detectObjects returns for a box of the model
EmittedBbox(lib, modelId, box) ==
  IF modelId = "coco-ssd" THEN CocoBbox(box)
  ELSE IF lib = "pipeline" THEN PipelineBbox(box)
  ELSE HuggingFaceBbox(box)

\* detectObjects from the inference to its return value
ModelDetects ==
  /\ flow.pc = "inferring"
  /\ \E box \in ReportedBoxes(flow) :
       flow' = [pc |-> "detected", lib |-> flow.lib, modelId |-> flow.modelId,
                w |-> flow.w, h |-> flow.h, scaling |-> flow.scaling,
                canvas |-> flow.canvas, modelImage |-> flow.modelImage,
                content |-> flow.content, box |-> box,
                bbox |-> EmittedBbox(flow.lib, flow.modelId, box)]
  /\ UNCHANGED <<varsInfer, varsPre, varsUpload, varsFilter, varsKernel, varsCoords,
                 varsThreshold, varsClassify>>

\* processImage: results.forEach(... drawRecognitionResult ...), the mapping
MapDetection ==
  /\ flow.pc = "detected"
  /\ flow' = [pc |-> "mapped", lib |-> flow.lib, modelId |-> flow.modelId,
              w |-> flow.w, h |-> flow.h, scaling |-> flow.scaling,
              canvas |-> flow.canvas, modelImage |-> flow.modelImage,
              content |-> flow.content, box |-> flow.box, bbox |-> flow.bbox,
              mapped |-> convertCoordinates(flow.bbox, flow.modelId, flow.canvas,
                                            flow.scaling)]
  /\ UNCHANGED <<varsInfer, varsPre, varsUpload, varsFilter, varsKernel, varsCoords,
                 varsThreshold, varsClassify>>

\* the reported box is the uploaded image inside the model's image
SpansContent(f) ==
  /\ Num(f.box[1]) = f.content.x
  /\ Num(f.box[2]) = f.content.y
  /\ Num(f.box[3] - f.box[1]) = f.content.width
  /\ Num(f.box[4] - f.box[2]) = f.content.height

\* C21: the scaledWidth / scaledHeight and the offsets the page hands to
\* convertCoordinates are the size and the letterbox offsets of the uploaded
\* image inside the image that detectObjects gave to the model, so that a
\* detection spanning that image is mapped onto the whole original image.
C21_ScalingOfModelImage ==
  /\ flow.pc \in {"inferring", "detected", "mapped"} =>
       /\ flow.scaling.scaledWidth = flow.content.width
       /\ flow.scaling.scaledHeight = flow.content.height
       /\ flow.scaling.offsetX = flow.content.x
       /\ flow.scaling.offsetY = flow.content.y
  /\ (flow.pc = "mapped" /\ SpansContent(flow)) =>
       flow.mapped = [x |-> Num(0), y |-> Num(0),
                      width |-> Num(flow.w), height |-> Num(flow.h)]

\* the corners convertCoordinates reads from a bbox array: for an identifier
\* containing 'detr' or 'yolos' const [xmin, ymin, xmax, ymax] = bbox, otherwise
\* const [x, y, width, height] = bbox
AssumedBox(modelId, bbox) ==
  IF modelId \in CornerPairIds
    THEN <<bbox[1], bbox[2], bbox[3], bbox[4]>>
    ELSE <<bbox[1], bbox[2], bbox[1] + bbox[3], bbox[2] + bbox[4]>>

\* C22: for every model identifier, the order of the four numbers detectObjects
\* emits is the order convertCoordinates assumes for that identifier: read
\* under the mapper's convention, the emitted bbox is the box the model reported.
C22_EmittedOrderIsAssumedOrder ==
  flow.pc \in {"detected", "mapped"} => AssumedBox(flow.modelId, flow.bbox) = flow.box

----------------------------------------------------------------------------
(* utils/image-processing: applyAdaptiveContrast as loops over buffers in  *)
(* memory.  `writes` counts the assignments to each element of result.     *)

\* the blockSize arguments
BlockSizes == {2, 3, 8}

\* the maxContrast arguments, in halves (2 is 1.0, 4 is 2.0, 6 is 3.0)
MaxContrasts == {2, 4, 6}

\* const result = new Uint8ClampedArray(grayscale)
AllocateResult(grayscale) ==
  [grayscale |-> grayscale, result |-> grayscale,
   writes |-> TypedArray([i \in 1..Len(grayscale) |-> 0])]

\* for (by ...; by += blockSize) for (bx ...; bx += blockSize): the block
\* origins <<bx, by>> in the order the loops visit them
BlockOrigins(width, height, blockSize) ==
  LET columns == (width + blockSize - 1) \div blockSize
      rows == (height + blockSize - 1) \div blockSize
  IN TypedArray([k \in 1..(columns * rows) |->
                   <<((k - 1) % columns) * blockSize, ((k - 1) \div columns) * blockSize>>])

\* for (y < blockHeight) for (x < blockWidth): idx = (by + y) * width + (bx + x)
BlockIndices(width, bx, by, blockWidth, blockHeight) ==
  TypedArray([k \in 1..(blockWidth * blockHeight) |->
                (by + ((k - 1) \div blockWidth)) * width + bx + ((k - 1) % blockWidth) + 1])

\* enhanceBlockContrast: mean is sum / count, scale is sn / sd
RECURSIVE enhanceBlockContrast(_, _, _, _, _, _)
enhanceBlockContrast(m, todo, sum, count, sn, sd) ==
  IF todo = <<>> THEN m
  ELSE LET idx == Head(todo)
           value == m.grayscale[idx]
       IN enhanceBlockContrast(
            [m EXCEPT !.result[idx] = Uint8Clamped(sum * sd + sn * (value * count - sum),
                                                   count * sd),
                      !.writes[idx] = @ + 1],
            Tail(todo), sum, count, sn, sd)

\* the body of the two block loops of applyAdaptiveContrast
RECURSIVE ContrastLoop(_, _, _, _, _, _)
ContrastLoop(m, width, height, blockSize, contrastLimit, blocks) ==
  IF blocks = <<>> THEN m
  ELSE LET bx == Head(blocks)[1]
           by == Head(blocks)[2]
           blockWidth == Min(blockSize, width - bx)
           blockHeight == Min(blockSize, height - by)
           stats == calculateBlockStats(m.grayscale, width, bx, by, blockWidth, blockHeight)
           range == stats.max - stats.min
           \* scale = Math.min(contrastLimit, 1 / contrast); 1 / 0 is Infinity
           limited == range = 0 \/ contrastLimit * range <= 2 * 255
       IN ContrastLoop(
            enhanceBlockContrast(m, BlockIndices(width, bx, by, blockWidth, blockHeight),
                                 stats.sum, blockWidth * blockHeight,
                                 IF limited THEN contrastLimit ELSE 255,
                                 IF limited THEN 2 ELSE range),
            width, height, blockSize, contrastLimit, Tail(blocks))

\* an adaptive contrast that takes maxContrast in detection mode too
applyAdaptiveContrastNoDetectionLimit(grayscale, width, height, blockSize, maxContrast, isDetection) ==
  ContrastLoop(AllocateResult(grayscale), width, height, blockSize, maxContrast,
               BlockOrigins(width, height, blockSize))

\* applyAdaptiveContrast: the memory when it returns result
applyAdaptiveContrastMemory(grayscale, width, height, blockSize, maxContrast, isDetection) ==
  ContrastLoop(AllocateResult(grayscale), width, height, blockSize,
               IF isDetection THEN 3 ELSE maxContrast,
               BlockOrigins(width, height, blockSize))

\* a call of applyAdaptiveContrast, not yet run
ContrastCall(w, h, seed, blockSize, maxContrast, isDetection) ==
  [pc |-> "called", filter |-> "contrast", width |-> w, height |-> h,
   blockSize |-> blockSize, maxContrast |-> maxContrast, isDetection |-> isDetection,
   input |-> GrayData(seed, w, h), mem |-> AllocateResult(GrayData(seed, w, h))]

\* applyAdaptiveContrast(grayscale, width, height, blockSize, maxContrast, isDetection) runs
RunAdaptiveContrast ==
  /\ ker.pc = "called" /\ ker.filter = "contrast"
  /\ ker' = [ker EXCEPT !.pc = "returned",
                        !.mem = applyAdaptiveContrastMemory(ker.input, ker.width, ker.height,
                                                            ker.blockSize, ker.maxContrast,
                                                            ker.isDetection)]
  /\ UNCHANGED <<varsInfer, varsPre, varsUpload, varsFilter, varsCoords, varsThreshold,
                 varsClassify, varsFlow>>

\* the pixels in the same blockSize x blockSize tile as pixel i
TileOf(i, width, height, blockSize) ==
  {j \in 1..(width * height) :
     /\ ((j - 1) % width) \div blockSize = ((i - 1) % width) \div blockSize
     /\ ((j - 1) \div width) \div blockSize = ((i - 1) \div width) \div blockSize}

\* clamp(mean + scale * (value - mean), 0, 255) over a tile of the buffer, as
\* a fraction; limit is the contrast limit in halves
TileRemap(buffer, tile, value, limit) ==
  LET lowest == CHOOSE v \in {buffer[j] : j \in tile} : \A j \in tile : v <= buffer[j]
      highest == CHOOSE v \in {buffer[j] : j \in tile} : \A j \in tile : v >= buffer[j]
      mean == Frac(SumOver(buffer, tile), Cardinality(tile))
      scale == IF highest = lowest THEN Frac(limit, 2)
               ELSE FMin(Frac(limit, 2), Frac(255, highest - lowest))
  IN FMax(Num(0), FMin(Num(255), FAdd(mean, FMul(scale, FSub(Num(value), mean)))))

\* the tile of pixel i holds one value only
UniformTile(buffer, tile) == \A j, k \in tile : buffer[j] = buffer[k]

\* the integer b is a nearest integer to the fraction q
NearestInteger(b, q) ==
  /\ FLeq(FSub(Num(b), q), Frac(1, 2))
  /\ FLeq(FSub(q, Num(b)), Frac(1, 2))

\* C25 as stated: the tiles partition the image, every pixel is written exactly
\* once, and each output pixel equals clamp(mean + scale * (value - mean), 0, 255)
\* with mean, min and max over its tile of the input and scale =
\* min(contrastLimit, 255 / (max - min)), contrastLimit 1.5 in detection mode and
\* maxContrast otherwise; a tile of equal pixels is output unchanged.
C25_TileRemapExact ==
  (ker.pc = "returned" /\ ker.filter = "contrast") =>
    /\ ker.mem.grayscale = ker.input
    /\ \A i \in 1..(ker.width * ker.height) :
         LET tile == TileOf(i, ker.width, ker.height, ker.blockSize)
             limit == IF ker.isDetection THEN 3 ELSE ker.maxContrast
         IN /\ ker.mem.writes[i] = 1
            /\ Num(ker.mem.result[i]) = TileRemap(ker.input, tile, ker.input[i], limit)
            /\ UniformTile(ker.input, tile) => ker.mem.result[i] = ker.input[i]

\* C25 (amended): as above, with each output pixel a nearest integer to
\* clamp(mean + scale * (value - mean), 0, 255), the value being stored in a
\* byte buffer.
C25_TileRemapNearest ==
  (ker.pc = "returned" /\ ker.filter = "contrast") =>
    /\ ker.mem.grayscale = ker.input
    /\ \A i \in 1..(ker.width * ker.height) :
         LET tile == TileOf(i, ker.width, ker.height, ker.blockSize)
             limit == IF ker.isDetection THEN 3 ELSE ker.maxContrast
         IN /\ ker.mem.writes[i] = 1
            /\ NearestInteger(ker.mem.result[i],
                              TileRemap(ker.input, tile, ker.input[i], limit))
            /\ UniformTile(ker.input, tile) => ker.mem.result[i] = ker.input[i]

\* a detection-mode call with maxContrast 3.0 on a 5x5 buffer in 2x2 tiles:
\* clipped tiles at the right and bottom edges, a tile that is remapped and a
\* tile of equal pixels
C25_Witness ==
  /\ ker.pc = "returned" /\ ker.filter = "contrast"
  /\ ker.isDetection /\ ker.maxContrast = 6
  /\ ker.width = 5 /\ ker.height = 5 /\ ker.blockSize = 2
  /\ ker.mem.result # ker.input
  /\ \E i \in 1..25 : UniformTile(ker.input, TileOf(i, 5, 5, 2))
  /\ \A i \in 1..25 : ker.mem.writes[i] = 1

\* C27: for every source image and both model canvas sizes, prepareInputCanvas
\* yields scale > 0, scaledWidth <= canvasWidth, scaledHeight <= canvasHeight,
\* offsetX >= 0 and offsetY >= 0, the scaled image centred (scaledWidth +
\* 2*offsetX = canvasWidth, scaledHeight + 2*offsetY = canvasHeight) and at
\* least one of the two offsets equal to 0.
C27_LetterboxWithinCanvas ==
  flow.pc \in {"prepared", "inferring", "rejected", "detected", "mapped"} =>
    LET b == flow.letterbox
        canvasWidth == FromInt(b.standardWidth)
        canvasHeight == FromInt(b.standardHeight)
    IN /\ b.scale.sign = 1
       /\ AtMost(b.scaledWidth, canvasWidth)
       /\ AtMost(b.scaledHeight, canvasHeight)
       /\ b.offsetX.sign >= 0
       /\ b.offsetY.sign >= 0
       /\ Fl(Sum(b.scaledWidth, Doubled(b.offsetX))) = canvasWidth
       /\ Fl(Sum(b.scaledHeight, Doubled(b.offsetY))) = canvasHeight
       /\ (b.offsetX = Zero \/ b.offsetY = Zero)

----------------------------------------------------------------------------
(* utils/ml-models: the in-flight flag                                     *)

\* callers of the inference layer in SpecSlot
SlotCalls == 2

\* call c was accepted by a function that runs inside try { isModelLoading =
\* true ... } finally { isModelLoading = false } and has not settled
HoldsSlot(c) ==
  /\ Outstanding(c)
  /\ call[c].kind = "detect" \/ build = "pipeline"

SlotHolders == {c \in Calls : HoldsSlot(c)}

----------------------------------------------------------------------------
(* The pages: results and the selected image                                *)

\* C29: the results shown on the recognition and the classification page
\* belong to the currently selected image: recognitions, the processed image
\* and the no-results flag of the recognition page, and the predictions of the
\* classification page, are those of a run on the image now selected, also
\* when handleImageSelect ran while the processImage call was awaiting.
C29_ResultsOfSelectedImage ==
  /\ page.recognitions \in {0, page.image.id}
  /\ page.processedImage # NoImage => page.processedImage.id = page.image.id
  /\ page.hasNoRecognitions => seen.inferred = page.image
  /\ cls.mounted => cls.predictions \in {0, cls.image}

\* a processImage run of the recognition page is between its first statement
\* and its end
RunActive == run.pc # "idle"

\* the same for the classification page
ClsRunActive == cls.mounted /\ cls.pc # "idle"

\* isProcessing of the classification page
ClsProcessing == cls.mounted /\ cls.isProcessing

\* C30: a processImage run that passes the no-image guard sets isProcessing,
\* and when every operation it awaits settles it ends, on every path, with
\* isProcessing false; isProcessing is true only while a run is under way, and
\* with no image selected no run starts and isProcessing stays false.
C30_ProcessingFlagCleared ==
  /\ [](page.isProcessing <=> RunActive)
  /\ [](ClsProcessing <=> ClsRunActive)
  /\ ((page.isProcessing \/ ClsProcessing)
        ~> (~page.isProcessing /\ ~RunActive /\ ~ClsProcessing /\ ~ClsRunActive))
  /\ [][/\ (page.image = NoImage /\ ~RunActive) => (~RunActive' /\ ~page'.isProcessing)
        /\ (cls.mounted /\ cls.image = 0 /\ ~ClsRunActive)
             => (~ClsRunActive' /\ ~ClsProcessing')]_vars

\* a run of the recognition page has ended through the early return of the
\* empty result, and isProcessing is false
C30_Witness ==
  /\ seen.outcome = "empty"
  /\ ~RunActive
  /\ ~page.isProcessing
  /\ page.hasNoRecognitions

----------------------------------------------------------------------------
(* Specifications: one per part of the program.                            *)

\* the inference layer is not in use
InferOff ==
  /\ build = "pipeline"
  /\ isModelLoading = FALSE
  /\ backendInitialized = FALSE
  /\ model = [k \in ModelKeys |-> 0]
  /\ loadingPromise = [k \in ModelKeys |-> 0]
  /\ loadLog = <<>>
  /\ call = [c \in Calls |-> IdleCall]

\* preprocessImage is not running
PreOff == pp = [pc |-> "off"]

\* the page before any upload
UploadInit ==
  /\ upl = [preview |-> NoImage, error |-> "none", reading |-> {}, pending |-> FALSE,
            uploads |-> 0]
  /\ page = [image |-> NoImage, processedImage |-> NoImage, recognitions |-> 0,
             isProcessing |-> FALSE, error |-> "none", hasNoRecognitions |-> FALSE,
             selectedModel |-> "coco-ssd"]
  /\ run = IdleRun
  /\ seen = [inputCanvas |-> NoImage, detectArg |-> NoImage, inferred |-> NoImage,
             outcome |-> "none"]

\* no filter run
FilterOff == cv = [pc |-> "off"]

\* neither filter is called
KernelOff == ker = [pc |-> "off"]

\* no detection is being drawn
CoordsOff == det = [pc |-> "off"]

\* no inference has returned detections
ThresholdOff == thr = [pc |-> "off"]

\* the classification page is not the mounted route
ClassifyOff == cls = [mounted |-> FALSE]

\* no image is on its way to a detector
FlowOff == flow = [pc |-> "off"]

InitInfer ==
  /\ FlowOff
  /\ ClassifyOff
  /\ PreOff
  /\ UploadInit
  /\ FilterOff
  /\ KernelOff
  /\ CoordsOff
  /\ ThresholdOff
  /\ build \in Builds
  /\ isModelLoading = FALSE
  /\ backendInitialized = FALSE
  /\ model = [k \in ModelKeys |-> 0]
  /\ loadingPromise = [k \in ModelKeys |-> 0]
  /\ loadLog = <<>>
  /\ call = [c \in Calls |-> IdleCall]

NextInfer ==
  \/ \E c \in Calls : ClassifyImage(c)
  \/ \E c \in Calls : DetectObjects(c)
  \/ \E c \in Calls : ImageSettled(c)
  \/ \E c \in Calls : PreprocessSettled(c)
  \/ \E c \in Calls : BackendSettled(c)
  \/ \E id \in 1..NCalls : LoadSettled(id)
  \/ \E c \in Calls : InferenceSettled(c)

SpecInfer == InitInfer /\ [][NextInfer]_vars

\* the inference layer with SlotCalls callers
NextSlot ==
  \/ \E c \in 1..SlotCalls : ClassifyImage(c)
  \/ \E c \in 1..SlotCalls : DetectObjects(c)
  \/ \E c \in 1..SlotCalls : ImageSettled(c)
  \/ \E c \in 1..SlotCalls : PreprocessSettled(c)
  \/ \E c \in 1..SlotCalls : BackendSettled(c)
  \/ \E id \in 1..SlotCalls : LoadSettled(id)
  \/ \E c \in 1..SlotCalls : InferenceSettled(c)

SpecSlot == InitInfer /\ [][NextSlot]_vars

InitPre ==
  /\ FlowOff
  /\ ClassifyOff
  /\ InferOff
  /\ UploadInit
  /\ FilterOff
  /\ KernelOff
  /\ CoordsOff
  /\ ThresholdOff
  /\ \E w \in Dims, h \in Dims, o \in ProcessOptions, ctxOk \in BOOLEAN :
       pp = ReadyRun(w, h, o, ctxOk)

NextPre ==
  \/ PreprocessImage
  \/ ProcessedImageLoaded
  \/ ProcessedImageError

SpecPre == InitPre /\ [][NextPre]_vars

InitUpload ==
  /\ FlowOff
  /\ \/ ClassifyOff
     \/ cls = ClassificationPage
  /\ InferOff
  /\ PreOff
  /\ UploadInit
  /\ FilterOff
  /\ KernelOff
  /\ CoordsOff
  /\ ThresholdOff

NextUpload ==
  \/ UploadFile
  \/ RejectFile
  \/ ReaderLoaded
  \/ ReaderError
  \/ PreviewLoaded
  \/ ClearImage
  \/ DismissError
  \/ SelectModel
  \/ ClickDetect
  \/ RunImageSettled
  \/ DetectSettled
  \/ ClsImageSelect
  \/ ClsSelectModel
  \/ ClsClickClassify
  \/ ClsClassifySettled

SpecUpload == InitUpload /\ [][NextUpload]_vars

\* files uploaded in a run of SpecUploadFair
FairUploads == 1

UploadFileFair == UploadFileUpTo(FairUploads)

NextUploadFair ==
  \/ UploadFileFair
  \/ RejectFile
  \/ ReaderLoaded
  \/ ReaderError
  \/ PreviewLoaded
  \/ ClearImage
  \/ DismissError
  \/ SelectModel
  \/ ClickDetect
  \/ RunImageSettled
  \/ DetectSettled
  \/ ClsImageSelect
  \/ ClsSelectModel
  \/ ClsClickClassify
  \/ ClsClassifySettled

\* the pages when every promise a processImage run awaits settles
SpecUploadFair ==
  /\ InitUpload
  /\ [][NextUploadFair]_vars
  /\ WF_vars(RunImageSettled)
  /\ WF_vars(DetectSettled)
  /\ WF_vars(ClsClassifySettled)

InitFilter ==
  /\ FlowOff
  /\ ClassifyOff
  /\ InferOff
  /\ PreOff
  /\ UploadInit
  /\ KernelOff
  /\ CoordsOff
  /\ ThresholdOff
  /\ \E w \in 1..FilterMaxDim, h \in 1..FilterMaxDim, seed \in 1..FilterSeeds,
        o \in FilterOptions :
       cv = DrawnCanvas(w, h, seed, o)

NextFilter == FilterAndEncode

SpecFilter == InitFilter /\ [][NextFilter]_vars

InitKernel ==
  /\ FlowOff
  /\ ClassifyOff
  /\ InferOff
  /\ PreOff
  /\ UploadInit
  /\ FilterOff
  /\ CoordsOff
  /\ ThresholdOff
  /\ \E w \in 1..KernelMaxDim, h \in 1..KernelMaxDim, seed \in 1..KernelSeeds,
        isDetection \in BOOLEAN :
       \/ \E radius \in Radii : ker = KernelCall("median", w, h, seed, radius, isDetection)
       \/ ker = KernelCall("sharpen", w, h, seed, 1, isDetection)
       \/ \E blockSize \in BlockSizes, maxContrast \in MaxContrasts :
            ker = ContrastCall(w, h, seed, blockSize, maxContrast, isDetection)

NextKernel ==
  \/ RunMedianFilter
  \/ RunSharpeningFilter
  \/ RunAdaptiveContrast

SpecKernel == InitKernel /\ [][NextKernel]_vars

InitCoords ==
  /\ FlowOff
  /\ ClassifyOff
  /\ InferOff
  /\ PreOff
  /\ UploadInit
  /\ FilterOff
  /\ KernelOff
  /\ ThresholdOff
  /\ \E rev \in PageRevisions, modelId \in DetectorIds, size \in ImageSizes,
        bbox \in BoxFirst \X BoxSecond \X BoxThird \X BoxFourth :
       det = Detection(rev, modelId, size, bbox)

NextCoords ==
  \/ DrawInline
  \/ DrawRecognitionResult

SpecCoords == InitCoords /\ [][NextCoords]_vars

InitThreshold ==
  /\ FlowOff
  /\ ClassifyOff
  /\ InferOff
  /\ PreOff
  /\ UploadInit
  /\ FilterOff
  /\ KernelOff
  /\ CoordsOff
  /\ \E family \in Families, raw \in RawLists : thr = RawResults(family, raw)

NextThreshold ==
  \/ ReturnCocoSsd
  \/ ReturnPipeline

SpecThreshold == InitThreshold /\ [][NextThreshold]_vars

InitFlow ==
  /\ InferOff
  /\ PreOff
  /\ UploadInit
  /\ FilterOff
  /\ KernelOff
  /\ CoordsOff
  /\ ThresholdOff
  /\ ClassifyOff
  /\ \E lib \in Builds, w \in FlowDims, h \in FlowDims :
       \E modelId \in RecognitionIdsOf(lib) : flow = LoadedImage(lib, modelId, w, h)

NextFlow ==
  \/ PrepareCanvases
  \/ DetectPreprocess
  \/ ModelDetects
  \/ MapDetection

SpecFlow == InitFlow /\ [][NextFlow]_vars
====
